---- MODULE Spec2Model ----
(***************************************************************************)
(* A model of drachtio-presence-agent: the SUBSCRIBE lifecycle engine      *)
(* (lib/subscribe.js), the redis-backed store (lib/redisdb.js), the        *)
(* dialog event package (lib/events/packages/dialog.js) and the header     *)
(* utilities (lib/utils.js).                                               *)
(*                                                                         *)
(* JavaScript values are modelled as follows.  Strings are strings;        *)
(* template literals are string concatenations.  An object is a record     *)
(* whose fields are its own properties; a property that is not set reads   *)
(* as Undef (which prints as "undefined" inside a template literal, as in  *)
(* JavaScript).  The value undefined where an object is expected is the    *)
(* record Undefined; reading a property of it throws a TypeError.          *)
(*                                                                         *)
(* An async function runs without interruption up to its next await of a   *)
(* store or transport call; each such stretch is one action.  All store    *)
(* commands travel on one connection, so redis applies them in the order   *)
(* in which they were issued and answers them in that order: a command     *)
(* takes effect in the action that issues it, and the functions awaiting   *)
(* the store resume oldest first.  An exception that nothing catches in a  *)
(* timer callback ends the process; what a rejected promise that nothing   *)
(* handles does depends on the version of the runtime, and both outcomes   *)
(* are modelled.  When the process ends, its memory is gone.               *)
(***************************************************************************)
EXTENDS Integers, Sequences, FiniteSets, TLC

(***************************************************************************)
(* Bounds of the model.                                                    *)
(***************************************************************************)
MaxRequests == 2    \* SUBSCRIBE requests received, in and out of a dialog
MaxMessages == 1    \* messages received on the 'dialog' channel
MaxChannelMessages == 2   \* the same, where the channel listener is taken alone
MaxCalls == 3       \* calls of the event-state functions of RedisDb

(***************************************************************************)
(* Inputs.                                                                 *)
(***************************************************************************)
Subscribers == {[user |-> "alice", host |-> "example.com"],
                [user |-> "carol", host |-> "example.com"]}
Resources == {[user |-> "bob", host |-> "example.com"]}
\* An Event header is the sequence of its ';'-separated segments; a request
\* without the header has none.
NoEvent == <<>>
EventHeaders == {<<"dialog">>, <<"presence">>, <<"conference">>, NoEvent}
NoHeader == "absent"
ExpiresHeaders == {NoHeader, "60", "0"}
MessageStates == {"confirmed", "terminated"}
\* The statuses a subscriber answers a NOTIFY with.
ResponseStatuses == {"200", "481"}

Undef == "undefined"
Undefined == [isUndefined |-> "true"]
IsUndefined(o) == "isUndefined" \in DOMAIN o
Prop(o, p) == IF p \in DOMAIN o THEN o[p] ELSE Undef
ObjProp(o, p) == IF p \in DOMAIN o THEN o[p] ELSE Undefined
Truthy(v) == v # Undef /\ v # ""

(***************************************************************************)
(* lib/utils.js                                                            *)
(***************************************************************************)
\* No host of the inputs is a dotted-quad address, so the configured domain
\* override is never consulted and the domain is the host.
parseAor(u) == (IF Truthy(Prop(u, "user")) THEN u.user ELSE "undefined") \o "@" \o u.host

RECURSIVE JoinSegments(_)
JoinSegments(segs) ==
  IF Len(segs) = 0 THEN ""
  ELSE IF Len(segs) = 1 THEN segs[1]
  ELSE segs[1] \o ";" \o JoinSegments(Tail(segs))

\* What /id=([^//s;]*)/ captures in a segment of the inputs.
IdMatch(seg) == IF seg = "id=7" THEN "7" ELSE Undef

\* An Event header is the sequence of its ';'-separated segments.  The
\* pattern /^(.*);(.*)$/ is greedy: the first group is everything before the
\* last ';', the second group is the last segment.
parseEventHeader(segs) ==
  IF Len(segs) = 1 THEN [event |-> segs[1]]
  ELSE LET last == segs[Len(segs)]
           ev == JoinSegments(SubSeq(segs, 1, Len(segs) - 1))
       IN IF IdMatch(last) # Undef
          THEN [event |-> ev, id |-> IdMatch(last)]
          ELSE [event |-> ev]

\* No configuration supplies methods.subscribe.expire.default.
getDefaultSubscriptionExpiry(package) == 3600

parseInt(s) ==
  CASE s = "0" -> 0
    [] s = "60" -> 60
    [] s = "1800" -> 1800
    [] s = "3600" -> 3600
    [] OTHER -> CHOOSE n \in 1..9 : ToString(n) = s

(***************************************************************************)
(* The redis store: a function from the keys that exist to their values.   *)
(* A value is a hash, a string or a set, with its time-to-live in seconds  *)
(* as it was last set (Persist when the key never expires).                *)
(***************************************************************************)
Persist == 0 - 1
Null == [isNull |-> "true"]
NullStr == "null"
IsNil(o) == "isUndefined" \in DOMAIN o \/ "isNull" \in DOMAIN o

Put(f, k, v) == [x \in DOMAIN f \cup {k} |-> IF x = k THEN v ELSE f[x]]
Drop(f, k) == [x \in DOMAIN f \ {k} |-> f[x]]
Merge(old, new) ==
  [p \in DOMAIN old \cup DOMAIN new |-> IF p \in DOMAIN new THEN new[p] ELSE old[p]]

hgetall(s, k) == IF k \in DOMAIN s /\ s[k].type = "hash" THEN s[k].h ELSE Null
get(s, k) == IF k \in DOMAIN s /\ s[k].type = "string" THEN s[k].v ELSE NullStr
smembers(s, k) == IF k \in DOMAIN s /\ s[k].type = "set" THEN s[k].members ELSE {}
hmset(s, k, h) ==
  IF k \in DOMAIN s /\ s[k].type = "hash"
  THEN Put(s, k, [type |-> "hash", h |-> Merge(s[k].h, h), ttl |-> s[k].ttl])
  ELSE Put(s, k, [type |-> "hash", h |-> h, ttl |-> Persist])
set(s, k, v) == Put(s, k, [type |-> "string", v |-> v, ttl |-> Persist])
expire(s, k, secs) == IF k \in DOMAIN s THEN Put(s, k, [s[k] EXCEPT !.ttl = secs]) ELSE s
del(s, k) == IF k \in DOMAIN s THEN Drop(s, k) ELSE s
sadd(s, k, m) ==
  Put(s, k, [type |-> "set", members |-> smembers(s, k) \cup {m}, ttl |-> Persist])
srem(s, k, m) ==
  IF smembers(s, k) \ {m} = {} THEN del(s, k)
  ELSE Put(s, k, [s[k] EXCEPT !.members = @ \ {m}])
\* A sorted set is a function from its members to their scores.
zscores(s, k) == IF k \in DOMAIN s /\ s[k].type = "zset" THEN s[k].scores ELSE <<>>
zadd(s, k, score, m) ==
  Put(s, k, [type |-> "zset", scores |-> Put(zscores(s, k), m, score), ttl |-> Persist])
zrem(s, k, m) ==
  IF DOMAIN zscores(s, k) \ {m} = {} THEN del(s, k)
  ELSE Put(s, k, [s[k] EXCEPT !.scores = Drop(@, m)])
\* A range of scores: from min to max, or ['-inf', '+inf'].
AllScores == [all |-> "true"]
InRange(score, range) ==
  IF "all" \in DOMAIN range THEN TRUE ELSE range.min <= score /\ score <= range.max
RECURSIVE ByScore(_, _)
ByScore(scores, members) ==
  IF members = {} THEN <<>>
  ELSE LET first == CHOOSE m \in members : \A o \in members : scores[m] <= scores[o]
       IN <<first>> \o ByScore(scores, members \ {first})
zrangebyscore(s, k, range) ==
  ByScore(zscores(s, k), {m \in DOMAIN zscores(s, k) : InRange(zscores(s, k)[m], range)})

(***************************************************************************)
(* Key names: lib/redisdb.js and lib/events/packages/dialog.js             *)
(***************************************************************************)
makeEventStateKey(aor, event) == "es:" \o aor \o ":" \o event
makeSubStateKey(uuid) == "sub:" \o uuid
makeSubStateKeyId(subscriber, resource, event, id) ==
  "subkeyid:" \o resource \o ":" \o event \o ":" \o subscriber \o ":" \o id
makeSubStateKeyDialog(subscriber, resource, event, callid) ==
  "subkeydlg:" \o resource \o ":" \o event \o ":" \o subscriber \o ":" \o callid
makeDialogInfoKey(aor) == "dlg-info:$" \o aor
makeSubscriptionName(subscriber, resource) == "dlg-sub:" \o subscriber \o "-" \o resource
makeSubscribedResourceKey(resource) == "watched-aor:" \o resource

MAX_CALL_LENGTH == 60 * 60 * 3
ZSET == "event_zset"

\* process.env.SUPPORTED_EVENTS, split on ','.
supportedEvents == {"dialog", "presence"}
\* The registry of event packages: one handler per file of lib/events/packages.
eventPackages == {"dialog"}

(***************************************************************************)
(* State.                                                                  *)
(***************************************************************************)
VARIABLES
  received,   \* the number of SUBSCRIBE requests received so far
  messages,   \* the number of channel messages received so far
  dlg,        \* the SIP dialogs: request number of the initial SUBSCRIBE -> dialog
  dialogs,    \* subscribe.js `dialogs`: dialog id -> sequence of {subscription, timer}
  timers,     \* the timers created by setTimeout, in creation order
  store,      \* the redis store
  tasks,      \* the async functions awaiting a reply of the store, oldest first
  calls,      \* the async functions awaiting the transport
  resp,       \* request number -> the responses sent to it, in order
  sent,       \* dialog -> the NOTIFY requests sent in it, in order
  errors,     \* the errors no handler caught: {where, d, r}
  crashed,    \* the process has been ended by an uncaught exception
  uuids,      \* the number of short-uuids generated so far
  failed,     \* the store and transport failures that have occurred
  log,        \* message number -> the message and what onMessage has logged for it
  listeners   \* the number of 'message' listeners registered on the pubsub connection

vars == <<received, messages, dlg, dialogs, timers, store, tasks, calls, resp, sent,
          errors, crashed, uuids, failed, log, listeners>>

CallId(r) == "call" \o ToString(r)
RemoteTag(r) == "tag" \o ToString(r)
\* The dialog object createUAS resolves to (the fields this program reads).
StackId(r) == CallId(r) \o ";from-tag=" \o RemoteTag(r)
Uas(r) == [id |-> StackId(r), callId |-> CallId(r), remoteTag |-> RemoteTag(r)]
DialogOf(id) == CHOOSE r \in 1..MaxRequests : StackId(r) = id
Db == [isDb |-> "true"]
Logger == [isLogger |-> "true"]
True == [isTrue |-> "true"]
NewUuid(n) == "u" \o ToString(n)
NewETag(n) == ToString(n)

Init ==
  /\ received = 0
  /\ messages = 0
  /\ dlg = <<>>
  /\ dialogs = <<>>
  /\ timers = <<>>
  /\ store = <<>>
  /\ tasks = <<>>
  /\ calls = {}
  /\ resp = <<>>
  /\ sent = <<>>
  /\ errors = {}
  /\ crashed = FALSE
  /\ uuids = 0
  /\ failed = {}
  /\ log = <<>>
  /\ listeners = 1

(***************************************************************************)
(* lib/subscribe.js: validate                                              *)
(***************************************************************************)
\* A validate that lets a computed expiry of 0 through.
validateAnyExpiry(req) ==
  IF req.event = NoEvent THEN [ok |-> FALSE, status |-> "400"]
  ELSE LET parsed == parseEventHeader(req.event)
           event == [subscriber |-> parseAor(req.from), resource |-> parseAor(req.to),
                     eventType |-> parsed.event, callId |-> req.callId]
           expiry == IF req.expires # NoHeader THEN parseInt(req.expires)
                     ELSE getDefaultSubscriptionExpiry(parsed.event)
       IN IF parsed.event \notin supportedEvents THEN [ok |-> FALSE, status |-> "489"]
          ELSE [ok |-> TRUE, event |-> event, expiry |-> expiry]

\* req: [event: header segments or NoEvent, expires: header text or NoHeader,
\*       from, to: uris, callId].  The result is the response validate sends, or
\* the properties it sets on the request.
validate(req) ==
  IF req.event = NoEvent THEN [ok |-> FALSE, status |-> "400"]
  ELSE LET parsed == parseEventHeader(req.event)
           full == [subscriber |-> parseAor(req.from),
                    resource |-> parseAor(req.to),
                    eventType |-> parsed.event,
                    id |-> Prop(parsed, "id"),
                    callId |-> req.callId]
           \* _.omitBy(req.event, _.isNil); no request of the inputs has Accept
           event == [p \in {q \in DOMAIN full : full[q] # Undef} |-> full[p]]
           expiry == IF req.expires # NoHeader THEN parseInt(req.expires)
                     ELSE getDefaultSubscriptionExpiry(parsed.event)
       IN IF parsed.event \notin supportedEvents THEN [ok |-> FALSE, status |-> "489"]
          ELSE IF 0 = expiry THEN [ok |-> FALSE, status |-> "200"]
          ELSE [ok |-> TRUE, event |-> event, expiry |-> expiry]

Respond(r, status, expires) ==
  Put(resp, r, (IF r \in DOMAIN resp THEN resp[r] ELSE <<>>)
               \o <<[status |-> status, expires |-> expires]>>)

\* module.exports: a SUBSCRIBE outside of any dialog arrives.  When validate
\* passes, initial runs up to its await of createUAS.
Subscribe(from, to, event, expires) ==
  LET r == received + 1
      req == [event |-> event, expires |-> expires, from |-> from, to |-> to,
              callId |-> CallId(r)]
      v == validate(req)
  IN /\ ~crashed
     /\ received < MaxRequests
     /\ received' = r
     /\ IF v.ok
        THEN /\ calls' = calls \cup {[kind |-> "initial", r |-> r, pc |-> "createUAS",
                                      event |-> v.event, expiry |-> v.expiry]}
             /\ resp' = Put(resp, r, <<>>)
        ELSE /\ calls' = calls
             /\ resp' = Respond(r, v.status, Undef)
     /\ UNCHANGED <<messages, dlg, dialogs, timers, store, tasks, sent, errors, crashed,
                    uuids, failed, log, listeners>>

(***************************************************************************)
(* lib/events/packages/dialog.js: the handler of the 'dialog' package      *)
(***************************************************************************)
\* hmset stores every field as a string, and hgetall returns strings.
NewSubscriptionData(n, dlgObj, resource) ==
  [aor |-> resource,
   dialogId |-> dlgObj.callId \o ";from-tag=" \o dlgObj.remoteTag,
   count |-> "0",
   etag |-> NewETag(n),
   id |-> NewUuid(n),
   notifyType |-> "sip"]

\* A dialogAddSubscription whose MULTI leaves out the expire command.
dialogAddSubscriptionNoExpire(s, n, dlgObj, obj, expiry, fail) ==
  LET subscriber == Prop(obj, "subscriber")
      resource == Prop(obj, "resource")
      subscriptionName == makeSubscriptionName(subscriber, resource)
      key == makeSubscribedResourceKey(resource)
      subscriptionData == NewSubscriptionData(n, dlgObj, resource)
  IN IF fail
     THEN [store |-> s, thrown |-> FALSE, result |-> Undefined, key |-> subscriptionName]
     ELSE [store |-> hmset(sadd(s, key, subscriptionName), subscriptionName,
                           subscriptionData),
           thrown |-> FALSE, result |-> subscriptionData, key |-> subscriptionName]

\* The value is what the store holds once the commands the call issues have
\* been applied, and what the promise settles to.  A failure of the store
\* (fail) rejects both commands; the catch block logs and the function
\* resolves to undefined.
dialogAddSubscription(s, n, dlgObj, obj, expiry, fail) ==
  LET subscriber == Prop(obj, "subscriber")
      resource == Prop(obj, "resource")
      subscriptionName == makeSubscriptionName(subscriber, resource)
      key == makeSubscribedResourceKey(resource)
      subscriptionData == NewSubscriptionData(n, dlgObj, resource)
  IN IF fail
     THEN [store |-> s, thrown |-> FALSE, result |-> Undefined, key |-> subscriptionName]
     ELSE [store |-> expire(hmset(sadd(s, key, subscriptionName),
                                  subscriptionName, subscriptionData),
                            subscriptionName, expiry),
           thrown |-> FALSE, result |-> subscriptionData, key |-> subscriptionName]

\* Rendered document: its version, entity and dialog element.
NoDialog == [empty |-> "true"]
\* A makeXmlContent that takes the entity from the dialog-info alone.
makeXmlContentEntityOfInfo(subscriptionData, dialogInfoArg) ==
  LET dialogInfo == IF IsNil(dialogInfoArg) THEN [x \in {} |-> Undef] ELSE dialogInfoArg
      id == Prop(dialogInfo, "id")
  IN [version |-> Prop(subscriptionData, "count"),
      entity |-> Prop(dialogInfo, "aor"),
      dialog |-> IF ~Truthy(id) THEN NoDialog
                 ELSE [id |-> id, callId |-> Prop(dialogInfo, "callId"),
                       direction |-> Prop(dialogInfo, "direction"),
                       state |-> Prop(dialogInfo, "state")]]
makeXmlContent(subscriptionData, dialogInfoArg) ==
  LET dialogInfo == IF IsNil(dialogInfoArg) THEN [x \in {} |-> Undef] ELSE dialogInfoArg
      aor == Prop(dialogInfo, "aor")
      id == Prop(dialogInfo, "id")
      localTag == Prop(dialogInfo, "localTag")
      remoteTag == Prop(dialogInfo, "remoteTag")
      base == [id |-> id, callId |-> Prop(dialogInfo, "callId"),
               direction |-> Prop(dialogInfo, "direction"),
               state |-> Prop(dialogInfo, "state")]
      entity == IF Truthy(aor) THEN aor ELSE Prop(subscriptionData, "aor")
      dialog ==
        IF ~Truthy(id) THEN NoDialog
        ELSE IF Truthy(remoteTag) /\ Truthy(localTag)
             THEN base @@ [localTag |-> localTag, remoteTag |-> remoteTag]
        ELSE IF Truthy(remoteTag) THEN base @@ [remoteTag |-> remoteTag]
        ELSE IF Truthy(localTag) THEN base @@ [localTag |-> localTag]
        ELSE base
  \* count++ yields the count read from the store and increments the local
  \* copy only
  IN [version |-> Prop(subscriptionData, "count"), entity |-> entity, dialog |-> dialog]

\* dialogGetEventState, once both reads have returned.
dialogEventState(resource, subscriptionData, dialogInfo) ==
  IF IsNil(subscriptionData) THEN Undefined
  ELSE [aor |-> resource,
        etag |-> Prop(subscriptionData, "etag"),
        eventType |-> "dialog",
        contentType |-> "application/dialog-info+xml",
        content |-> makeXmlContent(subscriptionData, dialogInfo)]

(***************************************************************************)
(* lib/redisdb.js: subscriptions                                           *)
(***************************************************************************)
addSubscription(s, n, dlgObj, obj, expiry, fail) ==
  IF IsUndefined(obj) THEN [store |-> s, thrown |-> TRUE, result |-> Undefined, key |-> Undef]
  ELSE IF Prop(obj, "eventType") \in eventPackages
  THEN dialogAddSubscription(s, n, dlgObj, obj @@ [override |-> "true"], expiry, fail)
  ELSE LET key == makeSubStateKey(NewUuid(n))
           keyDialog == makeSubStateKeyDialog(Prop(obj, "subscriber"), Prop(obj, "resource"),
                                              Prop(obj, "eventType"), Prop(obj, "callId"))
           keyId == makeSubStateKeyId(Prop(obj, "subscriber"), Prop(obj, "resource"),
                                      Prop(obj, "eventType"), Prop(obj, "id"))
           s1 == expire(expire(set(hmset(s, key, obj), keyDialog, key), key, expiry),
                        keyDialog, expiry)
           s2 == IF Truthy(Prop(obj, "id")) THEN expire(set(s1, keyId, key), keyId, expiry)
                 ELSE s1
       IN IF fail THEN [store |-> s, thrown |-> TRUE, result |-> Undefined, key |-> key]
          ELSE [store |-> s2, thrown |-> FALSE, result |-> obj, key |-> key]

(***************************************************************************)
(* lib/subscribe.js: the timer map                                         *)
(***************************************************************************)
\* A startSubscriptionTimer that keeps the entries already in the map armed and
\* adds the new entry twice.
startSubscriptionTimerTwice(logger, db, dlgArg, subscription, expiry) ==
  LET timer == Len(timers) + 1
      id == Prop(dlgArg, "id")
      subs == IF id \in DOMAIN dialogs THEN dialogs[id] ELSE <<>>
      tm == [state |-> "armed", ms |-> expiry * 1000, logger |-> logger, db |-> db,
             dlg |-> dlgArg, subscription |-> subscription]
  IN [timers |-> timers \o <<tm, tm>>,
      dialogs |-> Put(dialogs, id, subs \o <<[subscription |-> subscription, timer |-> timer],
                                             [subscription |-> subscription,
                                              timer |-> timer + 1]>>)]

\* Both operators take the arguments in the positions of the function's
\* parameters (logger, db, dlg, subscription, ...), as the call site passes them.
startSubscriptionTimer(logger, db, dlgArg, subscription, expiry) ==
  LET timer == Len(timers) + 1
      id == Prop(dlgArg, "id")
      subs == IF id \in DOMAIN dialogs THEN dialogs[id] ELSE <<>>
  IN [timers |-> Append(timers, [state |-> "armed", ms |-> expiry * 1000,
                                 logger |-> logger, db |-> db, dlg |-> dlgArg,
                                 subscription |-> subscription]),
      dialogs |-> Put(dialogs, id, Append(subs, [subscription |-> subscription,
                                                 timer |-> timer]))]

\* err is the error thrown ("none" when the call returns); dialogs is the map
\* as the call leaves it; cancelled are the timers given to clearTimeout.
\* _.remove takes the matching entries out of the array in place and returns
\* them ([] for an array that is undefined), before the assertion is made.
clearSubscriptionTimer(logger, db, dlgArg, subscription, andCancel) ==
  IF IsUndefined(dlgArg)
  THEN [err |-> "TypeError", dialogs |-> dialogs, cancelled |-> {}]
  ELSE
    LET id == Prop(dlgArg, "id")
        known == id \in DOMAIN dialogs
        subs == IF known THEN dialogs[id] ELSE <<>>
        Match(e) == Prop(e.subscription, "eventType") = Prop(subscription, "eventType")
        arr == SelectSeq(subs, Match)
        rest == SelectSeq(subs, LAMBDA e : ~Match(e))
        removed == IF known THEN Put(dialogs, id, rest) ELSE dialogs
    IN IF Len(subs) > 0 /\ (IsUndefined(subscription)
                             \/ \E i \in 1..Len(subs) : IsUndefined(subs[i].subscription))
       THEN [err |-> "TypeError", dialogs |-> dialogs, cancelled |-> {}]
       ELSE IF Len(arr) # 1
       THEN [err |-> "AssertionError", dialogs |-> removed, cancelled |-> {}]
       ELSE [err |-> "none",
             dialogs |-> IF Len(rest) = 0 THEN Drop(dialogs, id) ELSE removed,
             cancelled |-> IF andCancel THEN {arr[1].timer} ELSE {}]

Cancel(ts, cancelled) ==
  [t \in DOMAIN ts |-> IF t \in cancelled /\ ts[t].state = "armed"
                       THEN [ts[t] EXCEPT !.state = "cancelled"] ELSE ts[t]]

(***************************************************************************)
(* lib/subscribe.js: notify, up to its await of db.getEventState           *)
(***************************************************************************)
\* A task is an async function suspended at an await.  r is the request (or
\* timer, or message) it works for and d the dialog.  The value read by the
\* command it awaits is held in `a`.
getEventStateCall(s, sub) ==
  LET eventType == Prop(sub, "eventType")
      resource == Prop(sub, "resource")
  IN IF eventType \in eventPackages
     THEN [pc |-> "dialogInfo", a |-> hgetall(s, makeDialogInfoKey(resource))]
     ELSE [pc |-> "eventState", a |-> hgetall(s, makeEventStateKey(resource, eventType))]

notifyCall(s, sub, d, subscriptionState, r, then) ==
  IF IsUndefined(sub) THEN [thrown |-> TRUE]
  ELSE [thrown |-> FALSE,
        task |-> [kind |-> "notify", r |-> r, d |-> d, sub |-> sub,
                  subscriptionState |-> subscriptionState, then |-> then,
                  pc |-> getEventStateCall(s, sub).pc,
                  a |-> getEventStateCall(s, sub).a,
                  dialogInfo |-> Null]]

\* The NOTIFY that notify gives to dlg.request, for the event state read.
NoBody == [none |-> "true"]
notifyRequest(sub, subscriptionState, state) ==
  LET withBody == ~IsNil(state) /\ subscriptionState # "terminated"
  IN [method |-> "NOTIFY",
      callId |-> Prop(sub, "callId"),
      subscriptionState |-> subscriptionState,
      event |-> Prop(sub, "eventType"),
      contentType |-> IF withBody THEN Prop(state, "contentType") ELSE Undef,
      body |-> IF withBody THEN Prop(state, "content") ELSE NoBody]

Send(d, request) ==
  Put(sent, d, (IF d \in DOMAIN sent THEN sent[d] ELSE <<>>) \o <<request>>)

\* db.removeSubscription, up to its first await.  For a subscription whose
\* event type has a handler this is dialogRemoveSubscription, which awaits
\* srem; otherwise it is the read of the dialog-correlation pointer.
removeSubscriptionCall(s, obj) ==
  IF IsUndefined(obj) THEN [store |-> s, thrown |-> TRUE, path |-> "none", value |-> NullStr]
  ELSE IF Prop(obj, "eventType") \in eventPackages
  THEN [store |-> srem(s, makeSubscribedResourceKey(Prop(obj, "resource")),
                       makeSubscriptionName(Prop(obj, "subscriber"), Prop(obj, "resource"))),
        thrown |-> FALSE, path |-> "dialog", value |-> NullStr]
  ELSE [store |-> s, thrown |-> FALSE, path |-> "generic",
        value |-> get(s, makeSubStateKeyDialog(Prop(obj, "subscriber"), Prop(obj, "resource"),
                                               Prop(obj, "eventType"), Prop(obj, "callId")))]

\* The commands db.removeSubscription issues once that first reply has come.
removeSubscriptionDeletes(s, obj, path, value) ==
  IF path = "dialog"
  THEN del(s, makeSubscriptionName(Prop(obj, "subscriber"), Prop(obj, "resource")))
  ELSE LET keyDialog == makeSubStateKeyDialog(Prop(obj, "subscriber"), Prop(obj, "resource"),
                                              Prop(obj, "eventType"), Prop(obj, "callId"))
           keyId == makeSubStateKeyId(Prop(obj, "subscriber"), Prop(obj, "resource"),
                                      Prop(obj, "eventType"), Prop(obj, "id"))
           s1 == del(del(s, keyDialog), value)
       IN IF Truthy(Prop(obj, "id")) THEN del(s1, keyId) ELSE s1


\* The function at the head of the queue goes on to await another reply (Then)
\* or returns (Done).
Ready == IF tasks = <<>> THEN {} ELSE {Head(tasks)}
Then(t2) == Append(Tail(tasks), t2)
Done == Tail(tasks)
\* The async functions that have not returned
Pending == {tasks[i] : i \in DOMAIN tasks} \cup calls
Uncaught(where, d, r) == errors \cup {[where |-> where, d |-> d, r |-> r]}

(***************************************************************************)
(* lib/subscribe.js: initial                                               *)
(***************************************************************************)
\* createUAS settles.  On success the dialog is established, the final
\* response carries Expires: req.expiry, and redisDb.addSubscription runs up
\* to its await.  fail: the store rejects the commands of that call.
CreateUASReturns(t, ok, fail) ==
  /\ ~crashed
  /\ t \in calls /\ t.kind = "initial" /\ t.pc = "createUAS"
  /\ calls' = calls \ {t}
  /\ IF ~ok
     THEN /\ fail = FALSE
          /\ resp' = Respond(t.r, "480", Undef)
          /\ failed' = failed \cup {"transport"}
          /\ listeners' = listeners
          /\ log' = log
          /\ UNCHANGED <<dlg, store, uuids, tasks>>
     ELSE LET add == addSubscription(store, uuids + 1, Uas(t.r), t.event, t.expiry, fail)
          IN /\ resp' = Respond(t.r, "2xx", ToString(t.expiry))
             /\ dlg' = Put(dlg, t.r, [handlers |-> FALSE, unsubscribed |-> FALSE,
                                      ended |-> "no", sub |-> Undefined,
                                      event |-> t.event, expiry |-> t.expiry,
                                      key |-> add.key, fail |-> fail, refreshed |-> {}])
             /\ store' = add.store
             /\ uuids' = uuids + 1
             /\ failed' = IF fail THEN failed \cup {"store"} ELSE failed
             /\ listeners' = listeners
             /\ log' = log
             /\ tasks' = Append(tasks, [kind |-> "initial", r |-> t.r, d |-> t.r,
                                        pc |-> "addSubscription", event |-> t.event,
                                        expiry |-> t.expiry, grant |-> t.expiry,
                                        thrown |-> add.thrown, result |-> add.result,
                                        key |-> add.key])
  /\ UNCHANGED <<received, messages, dialogs, timers, sent, errors, crashed>>

\* db.addSubscription settles, for initial or for refresh.  initial registers
\* the handlers of the dialog, arms the timer and calls notify without
\* awaiting it; refresh arms the timer, answers 202 and awaits notify.
AddSubscriptionReturns(t, crash) ==
  /\ ~crashed
  /\ t \in Ready /\ t.kind \in {"initial", "refresh"} /\ t.pc = "addSubscription"
  /\ IF t.thrown
     THEN /\ resp' = Respond(t.r, "480", Undef)
          /\ tasks' = Done
          /\ UNCHANGED <<dlg, dialogs, timers, calls, errors, crashed>>
     ELSE IF t.kind = "initial"
     THEN LET st == startSubscriptionTimer(Logger, Db, Uas(t.d), t.result, t.expiry)
              n == notifyCall(store, t.event, t.d, "active", t.r, "none")
              end == n.thrown /\ crash
          IN /\ dlg' = [dlg EXCEPT ![t.d] = [@ EXCEPT !.handlers = TRUE, !.sub = t.result]]
             /\ timers' = IF end THEN <<>> ELSE st.timers
             /\ dialogs' = IF end THEN <<>> ELSE st.dialogs
             /\ tasks' = IF end THEN <<>> ELSE IF n.thrown THEN Done ELSE Then(n.task)
             /\ calls' = IF end THEN {} ELSE calls
             /\ errors' = IF n.thrown THEN Uncaught("notify", t.d, t.r) ELSE errors
             /\ crashed' = end
             /\ resp' = resp
     ELSE LET st == startSubscriptionTimer(Uas(t.d), Db, Uas(t.d), t.result, t.grant)
              n == notifyCall(store, t.result, t.d, "active", t.r, "refresh")
          IN /\ crash = FALSE
             /\ timers' = st.timers
             /\ dialogs' = st.dialogs
             /\ resp' = IF n.thrown
                        THEN Put(resp, t.r, resp[t.r] \o
                               <<[status |-> "202", expires |-> ToString(t.grant)],
                                 [status |-> "480", expires |-> Undef]>>)
                        ELSE Respond(t.r, "202", ToString(t.grant))
             /\ tasks' = IF n.thrown THEN Done ELSE Then(n.task)
             /\ UNCHANGED <<dlg, calls, errors, crashed>>
  /\ UNCHANGED <<received, messages, store, sent, uuids, failed, log, listeners>>

(***************************************************************************)
(* lib/subscribe.js: notify, after its await                               *)
(***************************************************************************)
\* dialogGetEventState: the dialog-info record has been read; the
\* subscription record is read next.
DialogInfoReply(t) ==
  /\ ~crashed
  /\ t \in Ready /\ t.kind = "notify" /\ t.pc = "dialogInfo"
  /\ tasks' = Then([t EXCEPT !.pc = "subscriptionData",
                             !.dialogInfo = t.a,
                             !.a = hgetall(store,
                                     makeSubscriptionName(Prop(t.sub, "subscriber"),
                                                          Prop(t.sub, "resource")))])
  /\ UNCHANGED <<received, messages, dlg, dialogs, timers, store, calls, resp, sent,
                 errors, crashed, uuids, failed, log, listeners>>

\* db.getEventState settles and notify sends the NOTIFY.  When remove awaits
\* this notify, remove goes on to db.removeSubscription.
EventStateReply(t) ==
  /\ ~crashed
  /\ t \in Ready /\ t.kind = "notify" /\ t.pc \in {"subscriptionData", "eventState"}
  /\ LET state == IF t.pc = "subscriptionData"
                  THEN dialogEventState(Prop(t.sub, "resource"), t.a, t.dialogInfo)
                  ELSE t.a
         rc == removeSubscriptionCall(store, t.sub)
     IN /\ sent' = Send(t.d, notifyRequest(t.sub, t.subscriptionState, state))
        /\ IF t.then = "remove"
           THEN /\ store' = rc.store
                /\ tasks' = Then([kind |-> "remove", r |-> t.r, d |-> t.d,
                                  pc |-> "removeSubscription1", sub |-> t.sub,
                                  path |-> rc.path, value |-> rc.value,
                                  thrown |-> rc.thrown, grant |-> 0,
                                  req |-> [expires |-> "0"]])
           ELSE /\ store' = store
                /\ tasks' = Done
  /\ UNCHANGED <<received, messages, dlg, dialogs, timers, calls, resp, errors, crashed,
                 uuids, failed, log, listeners>>

(***************************************************************************)
(* lib/subscribe.js: refresh and remove                                    *)
(***************************************************************************)
\* A request can arrive in dialog d: its handlers are registered.
InDialog(d) ==
  /\ ~crashed
  /\ received < MaxRequests
  /\ d \in DOMAIN dlg
  /\ dlg[d].handlers
  /\ ~dlg[d].unsubscribed

\* A SUBSCRIBE with a non-zero Expires arrives in dialog d; the dialog emits
\* 'subscribe' and refresh runs up to its await of db.removeSubscription.
\* The request has not passed through validate: it has no event and no expiry
\* property.
InDialogSubscribe(d, expires) ==
  LET r == received + 1
      subscription == dlg[d].sub
      fromHeader == IF expires # NoHeader THEN parseInt(expires)
                    ELSE getDefaultSubscriptionExpiry("dialog")
      expiry == IF fromHeader = 0 THEN 3600 ELSE fromHeader
      c == clearSubscriptionTimer(Logger, Db, Uas(d), subscription, TRUE)
      rc == removeSubscriptionCall(store, subscription)
  IN /\ InDialog(d)
     /\ expires # "0"
     /\ received' = r
     /\ dlg' = [dlg EXCEPT ![d] = [@ EXCEPT !.refreshed = @ \cup {[r |-> r, expiry |-> expiry]}]]
     /\ dialogs' = c.dialogs
     /\ IF c.err # "none"
        THEN /\ resp' = Respond(r, "480", Undef)
             /\ UNCHANGED <<timers, store, tasks>>
        ELSE /\ timers' = Cancel(timers, c.cancelled)
             /\ store' = rc.store
             /\ resp' = Put(resp, r, <<>>)
             /\ tasks' = Append(tasks, [kind |-> "refresh", r |-> r, d |-> d,
                                        pc |-> "removeSubscription1", sub |-> subscription,
                                        path |-> rc.path, value |-> rc.value,
                                        thrown |-> rc.thrown, grant |-> expiry,
                                        req |-> [expires |-> expires]])
     /\ UNCHANGED <<messages, calls, sent, errors, crashed, uuids, failed, log, listeners>>

\* A SUBSCRIBE with Expires: 0 arrives in dialog d; the dialog emits
\* 'unsubscribe' and remove runs up to the await inside notify.  Nothing
\* catches what remove throws: crash is whether the runtime ends the process
\* on an unhandled rejection.
InDialogUnsubscribe(d, crash) ==
  LET r == received + 1
      n == notifyCall(store, dlg[d].sub, d, "terminated", r, "remove")
      end == n.thrown /\ crash
  IN /\ InDialog(d)
     /\ received' = r
     /\ dlg' = [dlg EXCEPT ![d] = [@ EXCEPT !.unsubscribed = TRUE,
                                            !.ended = IF n.thrown THEN "unsubscribe" ELSE @]]
     /\ tasks' = IF end THEN <<>> ELSE IF n.thrown THEN tasks ELSE Append(tasks, n.task)
     /\ calls' = IF end THEN {} ELSE calls
     /\ dialogs' = IF end THEN <<>> ELSE dialogs
     /\ timers' = IF end THEN <<>> ELSE timers
     /\ errors' = IF n.thrown THEN Uncaught("remove", d, r) ELSE errors
     /\ crashed' = end
     /\ UNCHANGED <<messages, store, resp, sent, uuids, failed, log, listeners>>

\* The first reply to db.removeSubscription has come; its deletes are issued.
\* rejectsNull: the redis client refuses a null argument (as its later
\* versions do) instead of sending it as the string "null".
RemoveSubscriptionReply(t, rejectsNull) ==
  /\ ~crashed
  /\ t \in Ready /\ t.kind \in {"refresh", "remove"} /\ t.pc = "removeSubscription1"
  /\ IF t.thrown \/ (t.path = "generic" /\ t.value = NullStr /\ rejectsNull)
     THEN /\ store' = store
          /\ tasks' = Then([t EXCEPT !.pc = "removeSubscription2", !.thrown = TRUE])
     ELSE /\ store' = removeSubscriptionDeletes(store, t.sub, t.path, t.value)
          /\ tasks' = Then([t EXCEPT !.pc = "removeSubscription2"])
  /\ UNCHANGED <<received, messages, dlg, dialogs, timers, calls, resp, sent, errors,
                 crashed, uuids, failed, log, listeners>>

\* db.removeSubscription settles.  remove goes on to clearSubscriptionTimer
\* (dlg, db, subscription, true); refresh goes on to
\* db.addSubscription(dlg, req.event, req.expiry).
RemoveSubscriptionReturns(t, crash, fail) ==
  /\ ~crashed
  /\ t \in Ready /\ t.kind \in {"refresh", "remove"} /\ t.pc = "removeSubscription2"
  /\ IF t.kind = "remove"
     THEN LET c == clearSubscriptionTimer(Uas(t.d), Db, t.sub, True, FALSE)
              err == t.thrown \/ c.err # "none"
              end == err /\ crash
          IN /\ fail = FALSE
             /\ dialogs' = IF end THEN <<>> ELSE IF t.thrown THEN dialogs ELSE c.dialogs
             /\ timers' = IF end THEN <<>> ELSE IF t.thrown THEN timers
                          ELSE Cancel(timers, c.cancelled)
             /\ errors' = IF err THEN Uncaught("remove", t.d, t.r) ELSE errors
             /\ crashed' = end
             /\ tasks' = IF end THEN <<>> ELSE Done
             /\ calls' = IF end THEN {} ELSE calls
             /\ dlg' = [dlg EXCEPT ![t.d] = [@ EXCEPT !.ended = "unsubscribe"]]
             /\ UNCHANGED <<store, resp, uuids, failed, log, listeners>>
     ELSE LET add == addSubscription(store, uuids + 1, Uas(t.d), ObjProp(t.req, "event"),
                                     ObjProp(t.req, "expiry"), fail)
          IN /\ crash = FALSE
             /\ IF t.thrown \/ add.thrown
                THEN /\ fail = FALSE
                     /\ resp' = Respond(t.r, "480", Undef)
                     /\ tasks' = Done
                     /\ UNCHANGED <<store, uuids, failed, log, listeners>>
                ELSE /\ store' = add.store
                     /\ uuids' = uuids + 1
                     /\ failed' = IF fail THEN failed \cup {"store"} ELSE failed
                     /\ listeners' = listeners
                     /\ log' = log
                     /\ resp' = resp
                     /\ tasks' = Then([kind |-> "refresh", r |-> t.r, d |-> t.d,
                                       pc |-> "addSubscription", event |-> Undefined,
                                       expiry |-> 0, grant |-> t.grant,
                                       thrown |-> add.thrown, result |-> add.result,
                                       key |-> add.key])
             /\ UNCHANGED <<dlg, dialogs, timers, calls, errors, crashed>>
  /\ UNCHANGED <<received, messages, sent>>

(***************************************************************************)
(* lib/subscribe.js: _expireSubscription                                   *)
(***************************************************************************)
\* Timing: a timer is set for a second at least, and the store answers sooner
\* than that.  A timer does not fire while the handler that armed it is still
\* sending the NOTIFY of the admission.
Admitting(d) ==
  \E t \in Pending :
    /\ t.kind = "notify"
    /\ t.subscriptionState = "active"
    /\ t.d = d

\* An armed timer fires.  notify is called and not awaited; then
\* clearSubscriptionTimer(logger, dlg, subscription) is called.  An error
\* thrown here is thrown out of the timer callback: nothing catches it and it
\* ends the process.
ExpireTimer(t) ==
  LET tm == timers[t]
      d == DialogOf(Prop(tm.dlg, "id"))
      isLogger == "isLogger" \in DOMAIN tm.logger
      n == notifyCall(store, tm.subscription, d, "terminated", t, "none")
      c == clearSubscriptionTimer(tm.logger, tm.dlg, tm.subscription, Undefined, FALSE)
      end == ~isLogger \/ n.thrown \/ c.err # "none"
  IN /\ ~crashed
     /\ t \in DOMAIN timers
     /\ tm.state = "armed"
     /\ ~Admitting(d)
     /\ dlg' = [dlg EXCEPT ![d] = [@ EXCEPT !.ended = "expiry"]]
     /\ timers' = IF end THEN <<>> ELSE [timers EXCEPT ![t] = [@ EXCEPT !.state = "fired"]]
     /\ tasks' = IF end THEN <<>> ELSE Append(tasks, n.task)
     /\ calls' = IF end THEN {} ELSE calls
     /\ dialogs' = IF end THEN <<>> ELSE c.dialogs
     /\ errors' = IF end THEN Uncaught("_expireSubscription", d, t) ELSE errors
     /\ crashed' = end
     /\ UNCHANGED <<received, messages, store, resp, sent, uuids, failed, log, listeners>>

(***************************************************************************)
(* The store's own expiry of keys.                                         *)
(***************************************************************************)
\* The subscription record a task has written or is about to read, while it
\* admits a subscription.
AdmitKey(t) ==
  IF t.kind = "initial" THEN Prop(t, "key")
  ELSE makeSubscriptionName(Prop(t.sub, "subscriber"), Prop(t.sub, "resource"))

\* Timing: a time-to-live is at least one second, and the store and the
\* transport answer sooner than that.  A subscription record does not expire
\* while the handler that wrote it is still admitting the subscription.
Fresh(k) ==
  /\ ~crashed
  /\ \E t \in Pending :
       /\ IF t.kind = "notify" THEN t.subscriptionState = "active" ELSE t.kind = "initial"
       /\ AdmitKey(t) = k

\* The keys one MULTI gave the same time-to-live reach their deadline at the
\* same instant, and redis returns no key that is past its deadline: the
\* pointers to a subscription record expire with the record.
ExpiryGroup(s, k) == IF s[k].type = "string" THEN s[k].v ELSE k
Expiring(s, g) == {k \in DOMAIN s : s[k].ttl # Persist /\ ExpiryGroup(s, k) = g}

KeyExpire(g) ==
  /\ ~crashed
  /\ Expiring(store, g) # {}
  /\ \A k \in Expiring(store, g) : ~Fresh(k)
  /\ store' = [k \in DOMAIN store \ Expiring(store, g) |-> store[k]]
  /\ UNCHANGED <<received, messages, dlg, dialogs, timers, tasks, calls, resp, sent,
                 errors, crashed, uuids, failed, log, listeners>>

(***************************************************************************)
(* lib/events/packages/dialog.js: onMessage                                *)
(***************************************************************************)
TerminalStates == {"terminated", "rejected", "cancelled"}

\* msg.split(' '), with the token 'undef' for an absent tag
MessageFields(aor, state) ==
  [aor |-> aor, id |-> "d" \o ToString(messages + 1), callId |-> "c1", lTag |-> "undef",
   rTag |-> "rt1", direction |-> "recipient", state |-> state]

\* The object given to makeXmlContent
MessageDialogInfo(msg) ==
  LET localTag == IF "undef" = msg.lTag THEN Undef ELSE msg.lTag
      remoteTag == IF "undef" = msg.rTag THEN Undef ELSE msg.rTag
  IN [aor |-> msg.aor, id |-> msg.id, callId |-> msg.callId, localTag |-> localTag,
      remoteTag |-> remoteTag, direction |-> msg.direction, state |-> msg.state]

\* The store once the dialog-info commands of onMessage have been applied
dialogInfoOf(msg) ==
  LET info == MessageDialogInfo(msg)
      base == [id |-> msg.id, direction |-> msg.direction, state |-> msg.state,
               callId |-> msg.callId]
      l == IF Truthy(info.localTag) THEN [localTag |-> info.localTag] ELSE <<>>
      r == IF Truthy(info.remoteTag) THEN [remoteTag |-> info.remoteTag] ELSE <<>>
  IN base @@ l @@ r
updateDialogInfo(s, msg) ==
  LET key == makeDialogInfoKey(msg.aor)
  IN IF msg.state \in TerminalStates THEN del(s, key)
     ELSE expire(hmset(s, key, dialogInfoOf(msg)), key, MAX_CALL_LENGTH)

\* What onMessage writes to its log for message m.
Logged(m, what, subscription) ==
  [log EXCEPT ![m] = [@ EXCEPT !.lines = @ \cup {[what |-> what,
                                                  subscription |-> subscription]}]]

\* A message arrives on the 'dialog' channel: the dialog-info record is
\* written or deleted and the members of the watched-resource set are asked for.
onMessage(msg) ==
  LET m == messages + 1
      s1 == updateDialogInfo(store, msg)
  IN /\ ~crashed
     /\ messages' = m
     /\ store' = s1
     /\ listeners' = listeners
     /\ log' = Put(log, m, [msg |-> msg, lines |-> {}])
     /\ tasks' = Append(tasks, [kind |-> "message", r |-> m, pc |-> "smembers", msg |-> msg,
                                rest |-> smembers(s1, makeSubscribedResourceKey(msg.aor)),
                                cur |-> Undef, a |-> Null])
     /\ UNCHANGED <<received, dlg, dialogs, timers, calls, resp, sent, errors, crashed,
                    uuids, failed>>

Message(aor, state) == messages < MaxMessages /\ onMessage(MessageFields(aor, state))

\* A loop that ends after the iteration it goes to.
NextMemberOnly(t, s, next) ==
  [t EXCEPT !.pc = "hgetall", !.cur = next, !.rest = {}, !.a = hgetall(s, next)]

\* The loop over the members goes to its next iteration (next is the member
\* the iteration takes), or ends.
NextMember(t, s, next) ==
  [t EXCEPT !.pc = "hgetall", !.cur = next, !.rest = @ \ {next}, !.a = hgetall(s, next)]
Members(t) == IF t.rest = {} THEN {Undef} ELSE t.rest
\* The function after an iteration: it awaits the read of the next member's
\* record, or has returned.
Continue(t, s, next) == IF t.rest = {} THEN <<>> ELSE <<NextMember(t, s, next)>>
\* A catch around the loop instead of inside it: the function returns.
AfterCatchReturns(t, s, next) == <<>>
\* The function after the catch inside the loop has logged an error.
AfterCatch(t, s, next) == Continue(t, s, next)

\* The members of the set have been read (fail: the read was rejected, which
\* the outer catch logs).
SMembersReply(t, next, fail) ==
  /\ ~crashed
  /\ t \in Ready /\ t.kind = "message" /\ t.pc = "smembers"
  /\ next \in Members(t)
  /\ IF fail
     THEN /\ next = Undef
          /\ tasks' = Done
          /\ failed' = failed \cup {"store"}
          /\ listeners' = listeners
          /\ log' = Logged(t.r, "Error notifying suscribers", Undef)
     ELSE /\ tasks' = Done \o Continue(t, store, next)
          /\ failed' = failed
          /\ listeners' = listeners
          /\ log' = [log EXCEPT ![t.r] =
                       [@ EXCEPT !.lines = @ \cup {[what |-> "retrieved subscriptions",
                                                    subscription |-> s] : s \in t.rest}]]
  /\ UNCHANGED <<received, messages, dlg, dialogs, timers, store, calls, resp, sent,
                 errors, crashed, uuids>>

\* The NOTIFY onMessage passes to srf.request
channelNotify(subscriptionData, msg) ==
  [uri |-> "sip:placeholder", method |-> "NOTIFY", callId |-> Undef,
   subscriptionState |-> "active", event |-> Undef,
   contentType |-> "application/dialog-info+xml",
   body |-> makeXmlContent(subscriptionData, MessageDialogInfo(msg))]

\* The read of the subscription record of the current member has settled
\* (fail: it was rejected, which the inner catch logs): a member without a
\* record is removed from the set; otherwise the NOTIFY is handed to the
\* stack, which sends it or not (sends).
SubscriptionDataReply(t, next, fail, sends) ==
  /\ ~crashed
  /\ t \in Ready /\ t.kind = "message" /\ t.pc = "hgetall"
  /\ IF fail \/ IsNil(t.a)
     THEN /\ next \in Members(t)
          /\ sends = FALSE
          /\ store' = IF fail THEN store
                      ELSE srem(store, makeSubscribedResourceKey(t.msg.aor), t.cur)
          /\ tasks' = Done \o (IF fail THEN AfterCatch(t, store', next)
                               ELSE Continue(t, store', next))
          /\ calls' = calls
          /\ sent' = sent
          /\ failed' = IF fail THEN failed \cup {"store"} ELSE failed
          /\ listeners' = listeners
          /\ log' = IF fail THEN Logged(t.r, "Error retrieving subscription data", t.cur)
                    ELSE Logged(t.r, "Error subscription not found", t.cur)
     ELSE /\ next = Undef
          /\ store' = store
          /\ tasks' = Done
          /\ calls' = calls \cup {[t EXCEPT !.pc = IF sends THEN "request" ELSE "rejected"]}
          /\ sent' = IF sends
                     THEN Send(DialogOf(Prop(t.a, "dialogId")), channelNotify(t.a, t.msg))
                     ELSE sent
          /\ failed' = failed
          /\ listeners' = listeners
          /\ log' = log
  /\ UNCHANGED <<received, messages, dlg, dialogs, timers, resp, errors, crashed, uuids>>

\* srf.request settles, with the request it has sent or with an error, which
\* the inner catch logs; a response other than 200 is logged.  The loop goes on.
RequestReturns(t, next, status) ==
  /\ ~crashed
  /\ t \in calls /\ t.kind = "message" /\ t.pc \in {"request", "rejected"}
  /\ next \in Members(t)
  /\ calls' = calls \ {t}
  /\ tasks' = tasks \o (IF t.pc = "rejected" THEN AfterCatch(t, store, next)
                        ELSE Continue(t, store, next))
  /\ IF t.pc = "rejected"
     THEN /\ status = "none"
          /\ failed' = failed \cup {"transport"}
          /\ listeners' = listeners
          /\ log' = Logged(t.r, "Error retrieving subscription data", t.cur)
     ELSE /\ status \in ResponseStatuses
          /\ failed' = failed
          /\ listeners' = listeners
          /\ log' = IF status # "200" THEN Logged(t.r, "received status " \o status, Undef)
                    ELSE log
  /\ UNCHANGED <<received, messages, dlg, dialogs, timers, store, resp, sent, errors,
                 crashed, uuids>>

(***************************************************************************)
(* The specification.                                                      *)
(***************************************************************************)
Aors == {parseAor(u) : u \in Resources}
ExpiryGroups == {ExpiryGroup(store, k) : k \in DOMAIN store}
MemberNames == {makeSubscriptionName(parseAor(s), parseAor(r)) :
                  s \in Subscribers, r \in Resources} \cup {Undef}

Next ==
  \/ \E from \in Subscribers, to \in Resources, event \in EventHeaders,
        expires \in ExpiresHeaders : Subscribe(from, to, event, expires)
  \/ \E t \in calls, ok \in BOOLEAN, fail \in BOOLEAN : CreateUASReturns(t, ok, fail)
  \/ \E t \in Ready, crash \in BOOLEAN : AddSubscriptionReturns(t, crash)
  \/ \E t \in Ready : DialogInfoReply(t)
  \/ \E t \in Ready : EventStateReply(t)
  \/ \E d \in DOMAIN dlg, expires \in ExpiresHeaders : InDialogSubscribe(d, expires)
  \/ \E d \in DOMAIN dlg, crash \in BOOLEAN : InDialogUnsubscribe(d, crash)
  \/ \E t \in Ready, rejectsNull \in BOOLEAN : RemoveSubscriptionReply(t, rejectsNull)
  \/ \E t \in Ready, crash \in BOOLEAN, fail \in BOOLEAN :
        RemoveSubscriptionReturns(t, crash, fail)
  \/ \E t \in DOMAIN timers : ExpireTimer(t)
  \/ \E g \in ExpiryGroups : KeyExpire(g)
  \/ \E aor \in Aors, state \in MessageStates : Message(aor, state)
  \/ \E t \in Ready, next \in MemberNames, fail \in BOOLEAN : SMembersReply(t, next, fail)
  \/ \E t \in Ready, next \in MemberNames, fail \in BOOLEAN, sends \in BOOLEAN :
        SubscriptionDataReply(t, next, fail, sends)
  \/ \E t \in calls, next \in MemberNames, status \in ResponseStatuses \cup {"none"} :
        RequestReturns(t, next, status)

Spec == Init /\ [][Next]_vars

(***************************************************************************)
(* The channel listener alone: the messages of the 'dialog' channel with    *)
(* all their variety, and no subscriber.                                   *)
(***************************************************************************)
ChannelStates == {"early", "confirmed", "terminated", "rejected"}
ChannelMessages ==
  [aor : Aors, id : {"d1"}, callId : {"c1"}, lTag : {"undef", "lt1"},
   rTag : {"undef", "rt1"}, direction : {"recipient"}, state : ChannelStates]
ChannelMessage(msg) == messages < MaxChannelMessages /\ onMessage(msg)

NextChannel ==
  \/ \E msg \in ChannelMessages : ChannelMessage(msg)
  \/ \E t \in Ready, next \in MemberNames, fail \in BOOLEAN : SMembersReply(t, next, fail)
  \/ \E g \in ExpiryGroups : KeyExpire(g)

SpecChannel == Init /\ [][NextChannel]_vars

(***************************************************************************)
(* lib/redisdb.js: event state.  The functions are called by the users of  *)
(* RedisDb, any number of them at a time; `received` counts the calls and  *)
(* `resp` holds what each call returned.                                   *)
(***************************************************************************)
\* A refreshEventState that removes the index entry and adds none.
refreshEventStateNoAdd(s, n, aor, eventType, expiry) ==
  LET etag == NewETag(n)
      key == makeEventStateKey(aor, eventType)
  IN [store |-> zrem(expire(hmset(s, key, [etag |-> etag]), key, expiry), ZSET, key),
      result |-> etag]

\* n: the number of the etag generateETag returns
addEventState(s, n, aor, expiry, eventType, contentType, content) ==
  LET etag == NewETag(n)
      key == makeEventStateKey(aor, eventType)
      data == [aor |-> aor, eventType |-> eventType, etag |-> etag,
               contentType |-> contentType, content |-> content]
  IN [store |-> zadd(expire(hmset(s, key, data), key, expiry), ZSET, parseInt(etag), key),
      result |-> data]

refreshEventState(s, n, aor, eventType, expiry) ==
  LET etag == NewETag(n)
      key == makeEventStateKey(aor, eventType)
  IN [store |-> zadd(zrem(expire(hmset(s, key, [etag |-> etag]), key, expiry), ZSET, key),
                     ZSET, parseInt(etag), key),
      result |-> etag]

modifyEventState(s, n, data, expiry, contentType, content) ==
  LET etag == NewETag(n)
      key == makeEventStateKey(Prop(data, "aor"), Prop(data, "eventType"))
      data2 == Merge(data, [etag |-> etag, content |-> content])
  IN [store |-> zadd(zrem(expire(hmset(s, key, data2), key, expiry), ZSET, key),
                     ZSET, parseInt(etag), key),
      result |-> etag]

\* The MULTI of removeEventState, for the event state its lookup returned.
removeEventStateDeletes(s, data) ==
  LET key == makeEventStateKey(Prop(data, "aor"), Prop(data, "eventType"))
  IN zrem(del(s, key), ZSET, key)

\* The command of getEventStateByETag
etagRange(etag) == [min |-> parseInt(etag), max |-> parseInt(etag)]

EventStateExpiries == {60}
EventStateKeys == {makeEventStateKey(aor, e) : aor \in Aors, e \in supportedEvents}
\* The event-state records there are, and the etags generated so far.
EventStateRecords(s) == {k \in DOMAIN s : s[k].type = "hash"}
ETags == {NewETag(n) : n \in 1..uuids}

Returns(r, result) == Put(resp, r, <<result>>)

AddEventStateCall(aor, eventType, expiry) ==
  LET add == addEventState(store, uuids + 1, aor, expiry, eventType, "application/pidf+xml",
                           "open")
  IN /\ received < MaxCalls
     /\ received' = received + 1
     /\ uuids' = uuids + 1
     /\ store' = add.store
     /\ resp' = Returns(received', [op |-> "addEventState", etag |-> add.result.etag,
                                    thrown |-> FALSE, data |-> add.result])
     /\ UNCHANGED <<messages, dlg, dialogs, timers, tasks, calls, sent, errors, crashed,
                    failed, log, listeners>>

RefreshEventStateCall(aor, eventType, expiry) ==
  LET refreshed == refreshEventState(store, uuids + 1, aor, eventType, expiry)
  IN /\ received < MaxCalls
     /\ received' = received + 1
     /\ uuids' = uuids + 1
     /\ store' = refreshed.store
     /\ resp' = Returns(received', [op |-> "refreshEventState", etag |-> refreshed.result,
                                    thrown |-> FALSE, data |-> Undefined])
     /\ UNCHANGED <<messages, dlg, dialogs, timers, tasks, calls, sent, errors, crashed,
                    failed, log, listeners>>

\* The caller passes the event state it has read from the record k.
ModifyEventStateCall(k, expiry) ==
  LET modified == modifyEventState(store, uuids + 1, hgetall(store, k), expiry,
                                   "application/pidf+xml", "closed")
  IN /\ received < MaxCalls
     /\ k \in EventStateRecords(store)
     /\ received' = received + 1
     /\ uuids' = uuids + 1
     /\ store' = modified.store
     /\ resp' = Returns(received', [op |-> "modifyEventState", etag |-> modified.result,
                                    thrown |-> FALSE, data |-> Undefined])
     /\ UNCHANGED <<messages, dlg, dialogs, timers, tasks, calls, sent, errors, crashed,
                    failed, log, listeners>>

\* getEventStateByETag is called, by a user (op = "getEventStateByETag") or
\* by removeEventState, and awaits zrangebyscore.
GetEventStateByETagCall(op, etag) ==
  /\ received < MaxCalls
  /\ received' = received + 1
  /\ tasks' = Append(tasks, [kind |-> op, r |-> received', pc |-> "zrangebyscore",
                             etag |-> etag,
                             found |-> zrangebyscore(store, ZSET, etagRange(etag)),
                             a |-> Null])
  /\ UNCHANGED <<messages, dlg, dialogs, timers, store, calls, resp, sent, errors, crashed,
                 uuids, failed, log, listeners>>

\* What removeEventState and getEventStateByETag return for the event state
\* `data` the lookup has come to; removeEventState throws when there is none.
Returned(t, data) ==
  [op |-> t.kind, etag |-> t.etag, thrown |-> t.kind = "removeEventState" /\ IsNil(data),
   data |-> IF IsNil(data) THEN Undefined ELSE data]

\* zrangebyscore has answered: with exactly one key the record is read.
ZRangeByScoreReply(t) ==
  /\ t \in Ready /\ t.kind \in {"getEventStateByETag", "removeEventState"}
  /\ t.pc = "zrangebyscore"
  /\ IF Len(t.found) = 1
     THEN /\ tasks' = Then([t EXCEPT !.pc = "hgetall", !.a = hgetall(store, t.found[1])])
          /\ resp' = resp
     ELSE /\ tasks' = Done
          /\ resp' = Returns(t.r, Returned(t, Undefined))
  /\ UNCHANGED <<received, messages, dlg, dialogs, timers, store, calls, sent, errors,
                 crashed, uuids, failed, log, listeners>>

\* The record has been read: getEventStateByETag returns it, and
\* removeEventState deletes the record and the index entry of its key.
EventStateDataReply(t) ==
  /\ t \in Ready /\ t.kind \in {"getEventStateByETag", "removeEventState"}
  /\ t.pc = "hgetall"
  /\ tasks' = Done
  /\ resp' = Returns(t.r, Returned(t, t.a))
  /\ store' = IF t.kind = "removeEventState" /\ ~IsNil(t.a)
              THEN removeEventStateDeletes(store, t.a) ELSE store
  /\ UNCHANGED <<received, messages, dlg, dialogs, timers, calls, sent, errors, crashed,
                 uuids, failed, log, listeners>>

NextEventState ==
  \/ \E aor \in Aors, e \in supportedEvents, expiry \in EventStateExpiries :
        AddEventStateCall(aor, e, expiry)
  \/ \E aor \in Aors, e \in supportedEvents, expiry \in EventStateExpiries :
        RefreshEventStateCall(aor, e, expiry)
  \/ \E k \in EventStateRecords(store), expiry \in EventStateExpiries :
        ModifyEventStateCall(k, expiry)
  \/ \E op \in {"getEventStateByETag", "removeEventState"}, etag \in ETags :
        GetEventStateByETagCall(op, etag)
  \/ \E t \in Ready : ZRangeByScoreReply(t)
  \/ \E t \in Ready : EventStateDataReply(t)
  \/ \E g \in ExpiryGroups : KeyExpire(g)

SpecEventState == Init /\ [][NextEventState]_vars

(***************************************************************************)
(* lib/redisdb.js: purgeExpired, next to the event-state functions.        *)
(***************************************************************************)
\* purgeExpired is called and awaits the zrangebyscore over the whole index.
\* nExpired is the counter of the function; removed counts the zrem commands
\* that found their member in the index.
PurgeExpiredCall ==
  /\ received < MaxCalls
  /\ received' = received + 1
  /\ tasks' = Append(tasks, [kind |-> "purgeExpired", r |-> received',
                             pc |-> "zrangebyscore",
                             found |-> zrangebyscore(store, ZSET, AllScores),
                             cur |-> Undef, a |-> Null, nExpired |-> 0, removed |-> 0])
  /\ UNCHANGED <<messages, dlg, dialogs, timers, store, calls, resp, sent, errors, crashed,
                 uuids, failed, log, listeners>>

\* The loop of purgeExpired takes the next key and reads its record, or the
\* function returns nExpired.
purgeNext(t, s) ==
  [t EXCEPT !.pc = "hgetall", !.cur = Head(t.found), !.found = Tail(t.found),
            !.a = hgetall(s, Head(t.found))]
Purged(t) == [op |-> "purgeExpired", count |-> t.nExpired, removed |-> t.removed]

PurgeRangeReply(t) ==
  /\ t \in Ready /\ t.kind = "purgeExpired" /\ t.pc = "zrangebyscore"
  /\ tasks' = IF t.found = <<>> THEN Done ELSE Then(purgeNext(t, store))
  /\ resp' = IF t.found = <<>> THEN Returns(t.r, Purged(t)) ELSE resp
  /\ UNCHANGED <<received, messages, dlg, dialogs, timers, store, calls, sent, errors,
                 crashed, uuids, failed, log, listeners>>

\* The read of the record of the current key has answered: when there is no
\* record the key is removed from the index, without awaiting the reply.
PurgeRecordReply(t) ==
  LET expired == IsNil(t.a)
      s1 == IF expired THEN zrem(store, ZSET, t.cur) ELSE store
      t1 == [t EXCEPT !.nExpired = IF expired THEN @ + 1 ELSE @,
                      !.removed = IF expired /\ t.cur \in DOMAIN zscores(store, ZSET)
                                  THEN @ + 1 ELSE @]
  IN /\ t \in Ready /\ t.kind = "purgeExpired" /\ t.pc = "hgetall"
     /\ store' = s1
     /\ tasks' = IF t.found = <<>> THEN Done ELSE Then(purgeNext(t1, s1))
     /\ resp' = IF t.found = <<>> THEN Returns(t.r, Purged(t1)) ELSE resp
     /\ UNCHANGED <<received, messages, dlg, dialogs, timers, calls, sent, errors,
                    crashed, uuids, failed, log, listeners>>

NextPurge ==
  \/ NextEventState
  \/ PurgeExpiredCall
  \/ \E t \in Ready : PurgeRangeReply(t)
  \/ \E t \in Ready : PurgeRecordReply(t)

SpecPurge == Init /\ [][NextPurge]_vars

(***************************************************************************)
(* lib/redisdb.js: findSubscriptions, next to addSubscription and          *)
(* removeSubscription on the generic schema, called by the users of        *)
(* RedisDb.                                                                *)
(***************************************************************************)
makeSubStateKeyWildCard(resource, event) == "subkeydlg:" \o resource \o ":" \o event \o ":*"
\* KEYS subkeydlg:<resource>:<event>:* : the keys there are that continue the
\* pattern with a subscriber and a Call-ID.
keys(s, resource, event) ==
  {k \in DOMAIN s :
     \E u \in Subscribers, r \in 1..MaxCalls :
       k = makeSubStateKeyDialog(parseAor(u), resource, event, CallId(r))}

\* The subscription objects the callers hold: one per call of addSubscription.
GenericEvent == "presence"
SubscriptionObjects ==
  {[subscriber |-> parseAor(u), resource |-> aor, eventType |-> GenericEvent,
    callId |-> CallId(r)] : u \in Subscribers, aor \in Aors, r \in 1..received}
SubscriptionExpiries == {60}

AddSubscriptionCall(u, aor, expiry) ==
  LET obj == [subscriber |-> parseAor(u), resource |-> aor, eventType |-> GenericEvent,
              callId |-> CallId(received + 1)]
      add == addSubscription(store, uuids + 1, Uas(received + 1), obj, expiry, FALSE)
  IN /\ received < MaxCalls
     /\ received' = received + 1
     /\ uuids' = uuids + 1
     /\ store' = add.store
     /\ resp' = Returns(received', [op |-> "addSubscription", subscribers |-> <<obj>>])
     /\ UNCHANGED <<messages, dlg, dialogs, timers, tasks, calls, sent, errors, crashed,
                    failed, log, listeners>>

\* removeSubscription(obj) is called and awaits the read of the pointer.
RemoveSubscriptionCall(obj) ==
  LET rc == removeSubscriptionCall(store, obj)
  IN /\ received < MaxCalls
     /\ makeSubStateKeyDialog(obj.subscriber, obj.resource, obj.eventType, obj.callId)
          \in DOMAIN store
     /\ received' = received + 1
     /\ store' = rc.store
     /\ tasks' = Append(tasks, [kind |-> "removeSubscription", r |-> received', pc |-> "get",
                                obj |-> obj, path |-> rc.path, value |-> rc.value])
     /\ UNCHANGED <<messages, dlg, dialogs, timers, calls, resp, sent, errors, crashed,
                    uuids, failed, log, listeners>>

\* The pointer has been read: the MULTI deletes the pointer and what it named.
RemoveSubscriptionDeletes(t) ==
  /\ t \in Ready /\ t.kind = "removeSubscription" /\ t.pc = "get"
  /\ store' = removeSubscriptionDeletes(store, t.obj, t.path, t.value)
  /\ tasks' = Done
  /\ resp' = Returns(t.r, [op |-> "removeSubscription", subscribers |-> <<t.obj>>])
  /\ UNCHANGED <<received, messages, dlg, dialogs, timers, calls, sent, errors, crashed,
                 uuids, failed, log, listeners>>

\* findSubscriptions is called and awaits KEYS.
FindSubscriptionsCall(resource, event) ==
  /\ received < MaxCalls
  /\ received' = received + 1
  /\ tasks' = Append(tasks, [kind |-> "findSubscriptions", r |-> received', pc |-> "keys",
                             dlgKeys |-> keys(store, resource, event), dlgkey |-> Undef,
                             key |-> NullStr, a |-> Null, subscribers |-> <<>>])
  /\ UNCHANGED <<messages, dlg, dialogs, timers, store, calls, resp, sent, errors, crashed,
                 uuids, failed, log, listeners>>

\* The loop of findSubscriptions takes the pointer `next` and reads it, or the
\* function returns the subscribers.
findNext(t, s, next) ==
  [t EXCEPT !.pc = "get", !.dlgkey = next, !.dlgKeys = @ \ {next}, !.key = get(s, next)]
FindContinues(t, next) ==
  /\ next \in (IF t.dlgKeys = {} THEN {Undef} ELSE t.dlgKeys)
  /\ tasks' = IF t.dlgKeys = {} THEN Done ELSE Then(findNext(t, store, next))
  /\ resp' = IF t.dlgKeys = {}
             THEN Returns(t.r, [op |-> "findSubscriptions", subscribers |-> t.subscribers])
             ELSE resp

\* A reply has come to findSubscriptions.  After KEYS the loop starts; after
\* the read of a pointer the record it names is read (the client either
\* rejects a null key, which the catch logs, or sends it as the key 'null');
\* after the read of the record, what was read is pushed.
FindSubscriptionsReply(t, next, rejectsNull) ==
  /\ t \in Ready /\ t.kind = "findSubscriptions"
  /\ IF t.pc = "keys" THEN rejectsNull = FALSE /\ FindContinues(t, next)
     ELSE IF t.pc = "get"
     THEN IF t.key = NullStr /\ rejectsNull THEN FindContinues(t, next)
          ELSE /\ next = Undef
               /\ tasks' = Then([t EXCEPT !.pc = "hgetall", !.a = hgetall(store, t.key)])
               /\ resp' = resp
     ELSE /\ rejectsNull = FALSE
          /\ FindContinues([t EXCEPT !.subscribers = Append(@, t.a)], next)
  /\ UNCHANGED <<received, messages, dlg, dialogs, timers, store, calls, sent, errors,
                 crashed, uuids, failed, log, listeners>>

PointerNames ==
  {makeSubStateKeyDialog(parseAor(u), aor, GenericEvent, CallId(r)) :
     u \in Subscribers, aor \in Aors, r \in 1..MaxCalls} \cup {Undef}

NextFind ==
  \/ \E u \in Subscribers, aor \in Aors, expiry \in SubscriptionExpiries :
        AddSubscriptionCall(u, aor, expiry)
  \/ \E obj \in SubscriptionObjects : RemoveSubscriptionCall(obj)
  \/ \E t \in Ready : RemoveSubscriptionDeletes(t)
  \/ \E aor \in Aors : FindSubscriptionsCall(aor, GenericEvent)
  \/ \E t \in Ready, next \in PointerNames, rejectsNull \in BOOLEAN :
        FindSubscriptionsReply(t, next, rejectsNull)
  \/ \E g \in ExpiryGroups : KeyExpire(g)

SpecFind == Init /\ [][NextFind]_vars

(***************************************************************************)
(* Admission and fan-out alone: subscriptions to the dialog event are      *)
(* admitted and several messages arrive on the channel, while nothing      *)
(* fails, no timer fires and no key expires.                               *)
(***************************************************************************)
FanOutMessage(aor, state) ==
  messages < MaxChannelMessages /\ onMessage(MessageFields(aor, state))

NextFanOut ==
  \/ \E from \in Subscribers, to \in Resources : Subscribe(from, to, <<"dialog">>, "60")
  \/ \E t \in calls : CreateUASReturns(t, TRUE, FALSE)
  \/ \E t \in Ready : AddSubscriptionReturns(t, FALSE)
  \/ \E t \in Ready : DialogInfoReply(t)
  \/ \E t \in Ready : EventStateReply(t)
  \/ \E aor \in Aors, state \in MessageStates : FanOutMessage(aor, state)
  \/ \E t \in Ready, next \in MemberNames : SMembersReply(t, next, FALSE)
  \/ \E t \in Ready, next \in MemberNames : SubscriptionDataReply(t, next, FALSE, TRUE)
  \/ \E t \in calls, next \in MemberNames : RequestReturns(t, next, "200")

SpecFanOut == Init /\ [][NextFanOut]_vars

(***************************************************************************)
(* lib/events/packages/dialog.js, module.exports: the channel listener.    *)
(* The callback of the pubsub connection's 'connect' event registers a     *)
(* 'message' listener and subscribes to the channel.  The store client     *)
(* emits 'connect' each time its connection is established, the first time *)
(* and after every loss of the connection; Init is the state once the      *)
(* first 'connect' has been handled.                                       *)
(***************************************************************************)
MaxListeners == 2

\* The pubsub connection is lost and established again: the 'connect'
\* callback runs once more and registers one more 'message' listener.
Reconnect ==
  /\ ~crashed
  /\ listeners < MaxListeners
  /\ listeners' = listeners + 1
  /\ UNCHANGED <<received, messages, dlg, dialogs, timers, store, tasks, calls, resp, sent,
                 errors, crashed, uuids, failed, log>>

\* A message arrives on the 'dialog' channel: the emitter calls every
\* registered 'message' listener in turn, and each call of onMessage runs to
\* its first await (h is the listener the call is for).
Emit(msg) ==
  LET m == messages + 1
      s1 == updateDialogInfo(store, msg)
  IN /\ ~crashed
     /\ messages < MaxMessages
     /\ messages' = m
     /\ store' = s1
     /\ listeners' = listeners
     /\ log' = Put(log, m, [msg |-> msg, lines |-> {}])
     /\ tasks' = tasks \o [h \in 1..listeners |->
                             [kind |-> "message", r |-> m, pc |-> "smembers", msg |-> msg,
                              rest |-> smembers(s1, makeSubscribedResourceKey(msg.aor)),
                              cur |-> Undef, a |-> Null, h |-> h]]
     /\ UNCHANGED <<received, dlg, dialogs, timers, calls, resp, sent, errors, crashed,
                    uuids, failed>>

NextListener ==
  \/ \E from \in Subscribers, to \in Resources : Subscribe(from, to, <<"dialog">>, "60")
  \/ \E t \in calls : CreateUASReturns(t, TRUE, FALSE)
  \/ \E t \in Ready : AddSubscriptionReturns(t, FALSE)
  \/ \E t \in Ready : DialogInfoReply(t)
  \/ \E t \in Ready : EventStateReply(t)
  \/ Reconnect
  \/ \E aor \in Aors, state \in MessageStates : Emit(MessageFields(aor, state))
  \/ \E t \in Ready, next \in MemberNames : SMembersReply(t, next, FALSE)
  \/ \E t \in Ready, next \in MemberNames : SubscriptionDataReply(t, next, FALSE, TRUE)
  \/ \E t \in calls, next \in MemberNames : RequestReturns(t, next, "200")

SpecListener == Init /\ [][NextListener]_vars

(***************************************************************************)
(* lib/utils.js: parseEventHeader, and validate of lib/subscribe.js, on    *)
(* Event headers that carry parameters.                                    *)
(***************************************************************************)
MaxParams == 2
EventTypes == {"dialog", "presence", "conference"}
EventParams == {"id=7", "foo=1"}
ParamLists == UNION {[1..n -> EventParams] : n \in 0..MaxParams}
\* The Event headers: an event type followed by its parameters.
ParamHeaders == {<<type>> \o params : type \in EventTypes, params \in ParamLists}

ParseEventHeaderCall(event) ==
  /\ received < MaxCalls
  /\ received' = received + 1
  /\ resp' = Returns(received', [op |-> "parseEventHeader", header |-> event,
                                 result |-> parseEventHeader(event)])
  /\ UNCHANGED <<messages, dlg, dialogs, timers, store, tasks, calls, sent, errors, crashed,
                 uuids, failed, log, listeners>>

ValidateCall(from, to, event, expires) ==
  LET req == [event |-> event, expires |-> expires, from |-> from, to |-> to,
              callId |-> CallId(received + 1)]
  IN /\ received < MaxCalls
     /\ received' = received + 1
     /\ resp' = Returns(received', [op |-> "validate", header |-> event,
                                    result |-> validate(req)])
     /\ UNCHANGED <<messages, dlg, dialogs, timers, store, tasks, calls, sent, errors,
                    crashed, uuids, failed, log, listeners>>

NextParse ==
  \/ \E event \in ParamHeaders : ParseEventHeaderCall(event)
  \/ \E from \in Subscribers, to \in Resources, event \in ParamHeaders,
        expires \in ExpiresHeaders : ValidateCall(from, to, event, expires)

SpecParse == Init /\ [][NextParse]_vars

(***************************************************************************)
(* Subscriptions from admission to their end, with nothing failing: the    *)
(* store and the transport answer every call, and a timer that stays armed *)
(* fires.                                                                  *)
(***************************************************************************)
NextLive ==
  \/ \E from \in Subscribers, to \in Resources, event \in {<<"dialog">>, <<"presence">>} :
        Subscribe(from, to, event, "60")
  \/ \E t \in calls : CreateUASReturns(t, TRUE, FALSE)
  \/ \E t \in Ready, crash \in BOOLEAN : AddSubscriptionReturns(t, crash)
  \/ \E t \in Ready : DialogInfoReply(t)
  \/ \E t \in Ready : EventStateReply(t)
  \/ \E d \in DOMAIN dlg : InDialogSubscribe(d, "60")
  \/ \E d \in DOMAIN dlg, crash \in BOOLEAN : InDialogUnsubscribe(d, crash)
  \/ \E t \in Ready, rejectsNull \in BOOLEAN : RemoveSubscriptionReply(t, rejectsNull)
  \/ \E t \in Ready, crash \in BOOLEAN : RemoveSubscriptionReturns(t, crash, FALSE)
  \/ \E t \in DOMAIN timers : ExpireTimer(t)

\* setTimeout runs the callback of every timer that is not cleared; the store
\* and the transport settle every promise.
Fairness ==
  /\ WF_vars(\E t \in DOMAIN timers : ExpireTimer(t))
  /\ WF_vars(\E t \in calls : CreateUASReturns(t, TRUE, FALSE))
  /\ WF_vars(\E t \in Ready, crash \in BOOLEAN : AddSubscriptionReturns(t, crash))
  /\ WF_vars(\E t \in Ready : DialogInfoReply(t))
  /\ WF_vars(\E t \in Ready : EventStateReply(t))
  /\ WF_vars(\E t \in Ready, rejectsNull \in BOOLEAN : RemoveSubscriptionReply(t, rejectsNull))
  /\ WF_vars(\E t \in Ready, crash \in BOOLEAN : RemoveSubscriptionReturns(t, crash, FALSE))

SpecLive == Init /\ [][NextLive]_vars /\ Fairness

(***************************************************************************)
(* What the properties speak of.                                           *)
(***************************************************************************)
\* The timers created for dialog d, and those of them still armed.
TimersOf(d) == {t \in DOMAIN timers : Prop(timers[t].dlg, "id") = StackId(d)}
ArmedTimers(d) == {t \in TimersOf(d) : timers[t].state = "armed"}
\* The entries the timer map holds for dialog d.
MapEntries(d) == IF StackId(d) \in DOMAIN dialogs THEN dialogs[StackId(d)] ELSE <<>>
\* The positions, in the NOTIFYs sent in dialog d, of those with this
\* Subscription-State.
Notifies(d, subscriptionState) ==
  IF d \in DOMAIN sent
  THEN {i \in DOMAIN sent[d] : sent[d][i].subscriptionState = subscriptionState}
  ELSE {}
\* A handler of dialog d has not returned.
Busy(d) ==
  \E t \in Pending :
    IF t.kind = "message" THEN FALSE ELSE IF "d" \in DOMAIN t THEN t.d = d ELSE t.r = d
\* The refresh of request r has not returned.
RefreshPending(r) ==
  \E t \in Pending :
    /\ t.r = r
    /\ IF t.kind = "notify" THEN t.then = "refresh" ELSE t.kind = "refresh"
\* The event types an entry of the timer map can hold.
EntryEventTypes == supportedEvents \cup {Undef}

\* C1: once an in-dialog refresh has been handled, and nothing else has
\* happened in the dialog since, exactly one expiry timer is armed for the
\* dialog, and it is the one set for the refreshed expiry.
C1_RefreshLeavesOneTimer ==
  \A d \in DOMAIN dlg : \A q \in dlg[d].refreshed :
    (~crashed /\ ~dlg[d].fail /\ ~RefreshPending(q.r) /\ received = q.r
       /\ dlg[d].ended = "no")
    => /\ Cardinality(ArmedTimers(d)) = 1
       /\ \A t \in ArmedTimers(d) : timers[t].ms = q.expiry * 1000

\* C2: in every reachable state each dialog has at most one armed expiry timer
\* per event type, and the timer map holds at most one entry per dialog and
\* event type.
C2_AtMostOneTimer ==
  \A d \in DOMAIN dlg : \A e \in EntryEventTypes :
    /\ Cardinality({t \in ArmedTimers(d) :
                      Prop(timers[t].subscription, "eventType") = e}) <= 1
    /\ Cardinality({i \in DOMAIN MapEntries(d) :
                      Prop(MapEntries(d)[i].subscription, "eventType") = e}) <= 1

\* A dialog whose unsubscribe has been handled still has its one timer armed
\* and its one entry in the map.
C2_Witness ==
  \E d \in DOMAIN dlg :
    /\ dlg[d].ended = "unsubscribe"
    /\ Cardinality(ArmedTimers(d)) = 1
    /\ Len(MapEntries(d)) = 1

\* C3: termination of a subscription produces exactly one NOTIFY with
\* Subscription-State terminated, without a body: never a second one, and one
\* once the unsubscribe or the expiry has been handled.
C3_OneTerminatedNotify ==
  \A d \in DOMAIN dlg :
    /\ Cardinality(Notifies(d, "terminated")) <= 1
    /\ \A i \in Notifies(d, "terminated") : sent[d][i].body = NoBody
    /\ (dlg[d].ended # "no" /\ ~dlg[d].fail /\ ~Busy(d))
       => Cardinality(Notifies(d, "terminated")) = 1

\* C4: once the unsubscribe of a subscription to the dialog event has been
\* handled, its record is no longer in the store, its key is no longer in the
\* watched-resource set, and no NOTIFY follows the terminated one.
C4_UnsubscribeRemovesRecord ==
  \A d \in DOMAIN dlg :
    (Prop(dlg[d].event, "eventType") = "dialog" /\ dlg[d].ended = "unsubscribe"
       /\ failed = {} /\ Cardinality(DOMAIN dlg) = 1)
    => /\ dlg[d].key \notin DOMAIN store
       /\ dlg[d].key \notin smembers(store,
                                     makeSubscribedResourceKey(dlg[d].event.resource))
       /\ \A i \in Notifies(d, "terminated") : i = Len(sent[d])

\* C5: once a subscription has terminated, by unsubscribe or by expiry, the
\* timer map holds no entry for the dialog, no timer is armed for it, and the
\* handler has raised no error.
C5_TerminationClearsTimerMap ==
  \A d \in DOMAIN dlg :
    (dlg[d].ended # "no" /\ ~dlg[d].fail)
    => /\ StackId(d) \notin DOMAIN dialogs
       /\ ArmedTimers(d) = {}
       /\ \A e \in errors : e.d # d

\* The subscription records the store holds for dialog d.
SubscriptionRecords(d) ==
  {k \in DOMAIN store :
     /\ store[k].type = "hash"
     /\ IF "dialogId" \in DOMAIN store[k].h THEN store[k].h.dialogId = StackId(d)
        ELSE Prop(store[k].h, "callId") = CallId(d)}
\* The NOTIFY that notify(req.event) sends for the admission of dialog d.
AdmissionNotifies(d) ==
  {i \in Notifies(d, "active") : sent[d][i].event = Prop(dlg[d].event, "eventType")}

\* C6: an in-dialog refresh, handled without a failure of the store or of the
\* transport, is answered 202 with Expires equal to the granted expiry and
\* nothing else, and is followed by one more active NOTIFY and no terminated
\* NOTIFY.
C6_RefreshAnswered202 ==
  \A d \in DOMAIN dlg : \A q \in dlg[d].refreshed :
    (failed = {} /\ ~crashed /\ ~Busy(d) /\ messages = 0 /\ dlg[d].ended = "no"
       /\ ~dlg[d].unsubscribed)
    => /\ resp[q.r] = <<[status |-> "202", expires |-> ToString(q.expiry)]>>
       /\ Cardinality(Notifies(d, "active")) = 1 + Cardinality(dlg[d].refreshed)
       /\ Notifies(d, "terminated") = {}

\* The step in which the refresh q of dialog d returns.
RefreshEnds(d, q) ==
  /\ d \in DOMAIN dlg' /\ q \in dlg'[d].refreshed
  /\ IF q \in dlg[d].refreshed THEN RefreshPending(q.r) ELSE TRUE
  /\ ~RefreshPending(q.r)'
  /\ ~crashed'

\* C7: when an in-dialog refresh with expiry E returns, no store failure
\* having occurred, the store holds exactly one subscription record for the
\* dialog's subscription, the record is not the one the refresh found, and its
\* time-to-live is E.
C7_RefreshReplacesRecord ==
  [][\A d \in DOMAIN dlg : \A q \in dlg'[d].refreshed :
       (RefreshEnds(d, q) /\ failed' = {} /\ Cardinality(DOMAIN dlg) = 1)
       => /\ Cardinality(SubscriptionRecords(d)') = 1
          /\ \A k \in SubscriptionRecords(d)' :
               /\ store'[k].ttl = q.expiry
               /\ IF "id" \in DOMAIN store'[k].h
                  THEN store'[k].h.id # Prop(dlg[d].sub, "id")
                  ELSE k # dlg[d].key]_vars

\* The initial SUBSCRIBE of dialog d has been admitted: its record is written,
\* its handlers are registered and its timer has been set.
Admitted(d) == dlg[d].handlers /\ ~IsUndefined(dlg[d].sub)
\* initial is between its store write for dialog d and the reply to it.
Writing(d) ==
  \E t \in Pending : t.kind = "initial" /\ t.r = d /\ t.pc = "addSubscription"

\* C8: on a successful initial subscribe with expiry E > 0, the response that
\* establishes the dialog carries Expires E, the one subscription record
\* written for the dialog has time-to-live E, and the one timer created for
\* the dialog is armed for E seconds.
C8_ExpiryAgrees ==
  \A d \in DOMAIN dlg :
    LET E == dlg[d].expiry
    IN /\ E > 0
       /\ Head(resp[d]) = [status |-> "2xx", expires |-> ToString(E)]
       /\ Cardinality(SubscriptionRecords(d)) <= 1
       /\ \A k \in SubscriptionRecords(d) : store[k].ttl = E
       /\ (Writing(d) /\ ~dlg[d].fail) => dlg[d].key \in DOMAIN store
       /\ (Admitted(d) /\ ~crashed)
          => /\ Cardinality(TimersOf(d)) = 1
             /\ \A t \in TimersOf(d) : timers[t].ms = E * 1000
       /\ (Admitted(d) /\ ~crashed /\ dlg[d].refreshed = {} /\ dlg[d].ended = "no")
          => /\ ArmedTimers(d) = TimersOf(d)
             /\ Len(MapEntries(d)) = 1

\* A dialog admitted with the default expiry: its record is in the store and
\* its timer is armed.
C8_Witness ==
  \E d \in DOMAIN dlg :
    /\ Admitted(d) /\ ~crashed
    /\ dlg[d].expiry = 3600
    /\ \E k \in SubscriptionRecords(d) : store[k].ttl = 3600
    /\ \E t \in ArmedTimers(d) : timers[t].ms = 3600000

\* C9: a successful initial subscribe for the dialog event sends exactly one
\* active NOTIFY, after the dialog is established and the record is written;
\* its body is a dialog-info document whose entity is the resource AOR.
C9_InitialNotify ==
  \A d \in DOMAIN dlg :
    (Prop(dlg[d].event, "eventType") = "dialog" /\ ~dlg[d].fail)
    => /\ Cardinality(AdmissionNotifies(d)) <= 1
       /\ (Admitted(d) /\ ~crashed /\ ~Admitting(d))
          => Cardinality(AdmissionNotifies(d)) = 1
       /\ \A i \in AdmissionNotifies(d) :
            /\ Admitted(d)
            /\ sent[d][i].contentType = "application/dialog-info+xml"
            /\ sent[d][i].body # NoBody
            /\ sent[d][i].body.entity = dlg[d].event.resource

\* The NOTIFY of an admission, sent while a dialog-info record exists for the
\* resource: its entity is the resource AOR and it has a dialog element.
C9_Witness ==
  \E d \in DOMAIN dlg : \E i \in AdmissionNotifies(d) :
    /\ Prop(dlg[d].event, "eventType") = "dialog"
    /\ sent[d][i].body # NoBody
    /\ sent[d][i].body.entity = dlg[d].event.resource
    /\ sent[d][i].body.dialog # NoDialog

\* C10: when the store write of an initial subscribe fails, the request is
\* answered 480, no timer is set, the timer map gets no entry and no NOTIFY is
\* sent; when dialog establishment fails, the request is answered 480 and
\* nothing is written to the store (a request is answered 400, 489 or 200 when
\* validation has turned it away).
C10_FailureAnswered480 ==
  /\ \A d \in DOMAIN dlg :
       (dlg[d].fail /\ ~Busy(d) /\ ~crashed)
       => /\ \E i \in DOMAIN resp[d] : resp[d][i].status = "480"
          /\ TimersOf(d) = {}
          /\ MapEntries(d) = <<>>
          /\ d \notin DOMAIN sent
  /\ (DOMAIN dlg = {} /\ Pending = {} /\ messages = 0)
     => /\ store = <<>>
        /\ \A r \in DOMAIN resp :
             \E status \in {"480", "400", "489", "200"} :
               resp[r] = <<[status |-> status, expires |-> Undef]>>

\* The status with which a SUBSCRIBE outside of a dialog is turned away
\* ("none" when it is not).
Rejection(event, expires) ==
  IF event = NoEvent THEN "400"
  ELSE IF Head(event) \notin supportedEvents THEN "489"
  ELSE IF expires = "0" THEN "200"
  ELSE "none"

\* C11: a SUBSCRIBE outside of a dialog that validation turns away gets one
\* response (400 without Event header, 489 for an unsupported event type, 200
\* for a computed expiry of 0) and nothing else happens: no store write, no
\* dialog, no timer, no NOTIFY, and no handler is left running for it.
C11_RejectedOutright ==
  [][\A from \in Subscribers, to \in Resources, event \in EventHeaders,
        expires \in ExpiresHeaders :
       (Subscribe(from, to, event, expires) /\ Rejection(event, expires) # "none")
       => /\ resp'[received'] = <<[status |-> Rejection(event, expires),
                                   expires |-> Undef]>>
          /\ UNCHANGED <<store, dlg, dialogs, timers, sent, tasks, calls>>]_vars

\* Two requests have been turned away, one for its event type and one for its
\* expiry, and the store is empty.
C11_Witness ==
  \E r1, r2 \in DOMAIN resp :
    /\ resp[r1] = <<[status |-> "489", expires |-> Undef]>>
    /\ resp[r2] = <<[status |-> "200", expires |-> Undef]>>
    /\ store = <<>>
    /\ dlg = <<>>

\* What the log and the NOTIFYs sent tell of the fan-out for message m.
LinesOf(m, what) == {l.subscription : l \in {x \in log[m].lines : x.what = what}}
Retrieved(m) == LinesOf(m, "retrieved subscriptions")
NotFound(m) == LinesOf(m, "Error subscription not found")
Errored(m) == LinesOf(m, "Error retrieving subscription data")
             \cup LinesOf(m, "Error notifying suscribers")
\* onMessage has not returned for message m.
Fanning(m) == \E t \in Pending : t.kind = "message" /\ t.r = m
\* The NOTIFYs sent for message m: <<dialog, position>>.
SentNotifies == UNION {{<<d, i>> : i \in DOMAIN sent[d]} : d \in DOMAIN sent}
ChannelNotifies(m) ==
  {p \in SentNotifies :
     /\ Prop(sent[p[1]][p[2]], "uri") = "sip:placeholder"
     /\ Prop(sent[p[1]][p[2]].body.dialog, "id") = log[m].msg.id}
\* onMessage finds no record for member s and removes it from the set.
Prunes(m, s) ==
  /\ m \in DOMAIN log
  /\ s \notin NotFound(m)
  /\ s \in NotFound(m)'

\* C12: once onMessage has returned for a message, without an error, every
\* member of the watched-resource set whose record was found has been sent
\* exactly one NOTIFY, active and with the state of the message, and every
\* member whose record was absent has been sent none; the step that finds a
\* record absent removes the member from the set.
C12_FanOutInv ==
  \A m \in DOMAIN log :
    (~crashed /\ ~Fanning(m) /\ Errored(m) = {})
    => /\ NotFound(m) \subseteq Retrieved(m)
       /\ Cardinality(ChannelNotifies(m)) = Cardinality(Retrieved(m) \ NotFound(m))
       /\ \A p, q \in ChannelNotifies(m) : p[1] = q[1] => p = q
       /\ \A p \in ChannelNotifies(m) :
            /\ sent[p[1]][p[2]].subscriptionState = "active"
            /\ sent[p[1]][p[2]].body.dialog.state = log[m].msg.state
C12_FanOut ==
  /\ []C12_FanOutInv
  /\ [][\A m \in 1..MaxMessages, s \in MemberNames :
          Prunes(m, s)
          => /\ s \notin smembers(store', makeSubscribedResourceKey(log[m].msg.aor))
             /\ sent' = sent]_vars

\* onMessage has returned for a message whose set had two members: one has
\* been removed, its record having expired, and the other has been sent the
\* NOTIFY.
C12_Witness ==
  \E m \in DOMAIN log :
    /\ ~crashed /\ ~Fanning(m) /\ Errored(m) = {}
    /\ Cardinality(Retrieved(m)) = 2
    /\ Cardinality(NotFound(m)) = 1
    /\ Cardinality(ChannelNotifies(m)) = 1

\* The NOTIFYs of message m that were answered with another status than 200.
Refused(m) == {l \in log[m].lines : l.what = "received status 481"}
\* The dialog-info record is as message m leaves it.
DialogInfoApplied(m) ==
  LET msg == log[m].msg
      key == makeDialogInfoKey(msg.aor)
  IN IF msg.state \in TerminalStates THEN key \notin DOMAIN store
     ELSE key \in DOMAIN store
          => /\ store[key].h.id = msg.id
             /\ store[key].h.state = msg.state
             /\ store[key].ttl = MAX_CALL_LENGTH

\* C13: once onMessage has returned for a message whose set of watchers it
\* could read, every member whose record was found and for whom nothing
\* failed has been sent its NOTIFY, whatever failed for the other members
\* (the read of the record, the sending of the NOTIFY) and whatever status
\* the NOTIFYs were answered with; and as long as the message is the last one
\* the dialog-info record is as the message leaves it.
C13_FailureIsolated ==
  \A m \in DOMAIN log :
    /\ (~crashed /\ ~Fanning(m) /\ Undef \notin Errored(m))
       => Cardinality(ChannelNotifies(m))
            = Cardinality(Retrieved(m) \ (NotFound(m) \cup Errored(m)))
    /\ (m = messages /\ (Errored(m) # {} \/ Refused(m) # {})) => DialogInfoApplied(m)

\* onMessage has returned for a message whose set had two members: for one the
\* fan-out failed, the other has been sent the NOTIFY, and a NOTIFY was
\* answered 481.
C13_Witness ==
  \E m \in DOMAIN log :
    /\ ~crashed /\ ~Fanning(m) /\ Undef \notin Errored(m)
    /\ Cardinality(Retrieved(m)) = 2
    /\ Cardinality(Errored(m)) = 1
    /\ Cardinality(ChannelNotifies(m)) >= 1
    /\ Refused(m) # {}

\* The positions, in the NOTIFYs sent in dialog d, of those with a dialog-info
\* document.
Documents(d) ==
  IF d \in DOMAIN sent THEN {i \in DOMAIN sent[d] : "version" \in DOMAIN sent[d][i].body}
  ELSE {}

\* C14: the versions of the dialog-info documents sent to one subscription
\* increase strictly from one NOTIFY to the next.
C14_VersionsIncrease ==
  \A d \in DOMAIN dlg :
    dlg[d].refreshed = {}
    => \A i, j \in Documents(d) :
         i < j => parseInt(sent[d][i].body.version) < parseInt(sent[d][j].body.version)

\* C15: when a channel message has been handled, the dialog-info record of its
\* resource exists if and only if the state of the message is not terminal,
\* and then it holds the fields of that message and no other, with a
\* time-to-live of 3 hours.
C15_DialogInfoIsLastMessage ==
  [][messages' # messages
     => LET msg == log'[messages'].msg
            key == makeDialogInfoKey(msg.aor)
        IN IF msg.state \in TerminalStates THEN key \notin DOMAIN store'
           ELSE /\ key \in DOMAIN store'
                /\ store'[key].h = dialogInfoOf(msg)
                /\ store'[key].ttl = MAX_CALL_LENGTH]_vars

\* C16: every NOTIFY sent has a Subscription-State of active or terminated and
\* an Event header naming the event type of the subscription of its dialog,
\* and has a body, with a Content-Type, only when the state is active.
C16_NotifyHeaders ==
  \A p \in SentNotifies :
    LET n == sent[p[1]][p[2]]
    IN /\ n.subscriptionState \in {"active", "terminated"}
       /\ n.event = Prop(dlg[p[1]].event, "eventType")
       /\ n.body # NoBody => (n.subscriptionState = "active" /\ n.contentType # Undef)

\* The async function t is awaiting the reply to a command on a key of the
\* generic schema (es:, sub:, subkeydlg:, subkeyid:).
GenericAccess(t) ==
  \/ t.kind = "notify" /\ t.pc = "eventState"
  \/ "path" \in DOMAIN t /\ t.path = "generic"

\* C17: no operation on a subscription whose event type has a handler reads
\* or writes a key of the generic schema.
C17_HandlerOwnsSchema ==
  \A t \in Pending :
    ("d" \in DOMAIN t /\ t.d \in DOMAIN dlg
       /\ Prop(dlg[t.d].event, "eventType") \in eventPackages)
    => ~GenericAccess(t)

\* The lookups by tag that await their zrangebyscore.
Lookups == {t \in Pending : t.kind \in {"getEventStateByETag", "removeEventState"}}

RemoveEventStateEnds(t) ==
  /\ t.kind = "removeEventState"
  /\ \/ ZRangeByScoreReply(t) /\ Len(t.found) # 1
     \/ EventStateDataReply(t)
\* The records whose current tag is etag.
Tagged(s, etag) == {k \in EventStateRecords(s) : s[k].h.etag = etag}

\* C19: when removeEventState(tag) ends, either it has deleted the one record
\* whose tag was the given tag, with its index entry, and nothing else, or no
\* record had that tag and it has thrown and left the store as it was.  (Said
\* of the calls whose lookup did not come to a record that names no resource.)
C19_RemovesTheTaggedRecord ==
  [][\A t \in Ready :
       (RemoveEventStateEnds(t) /\ (IsNil(t.a) \/ "aor" \in DOMAIN t.a))
       => IF resp'[t.r][1].thrown
          THEN Tagged(store, t.etag) = {} /\ store' = store
          ELSE \E k \in Tagged(store, t.etag) : store' = zrem(del(store, k), ZSET, k)]_vars

\* C20: purgeExpired removes the index entry of a key only when the key has no
\* record at the moment the removal is applied, and the number it returns is
\* the number of index entries it has removed.
C20_PurgeRemovesExpiredOnly ==
  [][\A t \in Ready :
       PurgeRecordReply(t)
       => /\ IsNil(t.a) => t.cur \notin EventStateRecords(store)
          /\ t.found = <<>> => resp'[t.r][1].count = resp'[t.r][1].removed]_vars

\* C21: what findSubscriptions returns has no null entry: every element is a
\* subscription record.
C21_FindReturnsRecords ==
  \A r \in DOMAIN resp :
    resp[r][1].op = "findSubscriptions"
    => \A i \in DOMAIN resp[r][1].subscribers : ~IsNil(resp[r][1].subscribers[i])

\* The positions, in the NOTIFYs sent in dialog d, of those of the fan-out for
\* message m.
FanOutNotifies(d, m) == {p[2] : p \in {q \in ChannelNotifies(m) : q[1] = d}}

\* C22: a watcher that is sent the NOTIFY of two messages is sent the one of
\* the earlier message first.
C22_FanOutsInOrder ==
  \A d \in DOMAIN sent : \A m1, m2 \in DOMAIN log :
    m1 < m2 => \A i \in FanOutNotifies(d, m1), j \in FanOutNotifies(d, m2) : i < j

\* C23: however often the listener's connection has been established, one
\* message on the channel has every watcher sent at most one NOTIFY.
C23_OneFanOutPerMessage ==
  \A d \in DOMAIN sent : \A m \in DOMAIN log : Cardinality(FanOutNotifies(d, m)) <= 1

\* C24: the step of onMessage that removes a member from the watched-resource
\* set is taken only while the member's subscription record is absent from the
\* store.
C24_PrunesOnlyStaleMembers ==
  [][\A m \in DOMAIN log, s \in MemberNames \ {Undef} :
       Prunes(m, s) => IsNil(hgetall(store, s))]_vars

\* C25: every subscription that has been admitted is in the end sent a NOTIFY
\* with Subscription-State terminated and has no entry left in the timer map.
C25_AdmittedTerminates ==
  \A d \in 1..MaxRequests :
    (d \in DOMAIN dlg /\ Admitted(d))
    ~> (Notifies(d, "terminated") # {} /\ StackId(d) \notin DOMAIN dialogs)

\* C26: while a subscription to the dialog event is active and its record is
\* in the store, the record holds the correlation id of the subscription's own
\* dialog, whatever other subscriptions have been added or removed.
C26_RecordPerDialog ==
  \A d \in DOMAIN dlg :
    (Admitted(d) /\ Prop(dlg[d].event, "eventType") = "dialog" /\ dlg[d].ended = "no"
       /\ ~dlg[d].fail /\ dlg[d].key \in DOMAIN store)
    => hgetall(store, dlg[d].key).dialogId = StackId(d)

\* The values of the id parameters of an Event header.
IdParams(header) == {IdMatch(header[i]) : i \in 2..Len(header)} \ {Undef}

\* C27: parseEventHeader returns as type the token before the first ';' and as
\* id the value of an id parameter when the header has one, and validate does
\* not answer 489 to a header whose type is a supported event.
C27_TypeIsFirstToken ==
  \A r \in DOMAIN resp :
    /\ resp[r][1].op = "parseEventHeader"
       => /\ resp[r][1].result.event = resp[r][1].header[1]
          /\ IdParams(resp[r][1].header) # {}
             => Prop(resp[r][1].result, "id") \in IdParams(resp[r][1].header)
    /\ resp[r][1].op = "validate"
       => (resp[r][1].header[1] \in supportedEvents
             => Prop(resp[r][1].result, "status") # "489")

====
